---- MODULE Spec2Model ----
(***************************************************************************)
(* CollegeWayfarer: the storage layer (PostgresStorage / MemStorage behind *)
(* IStorage) and the HTTP handlers of server/routes and server/auth, as a  *)
(* state machine.  One action per HTTP handler; the storage methods are    *)
(* operators on the tables.  lastReq records which handler ran last and    *)
(* the HTTP status it answered with.                                       *)
(***************************************************************************)
EXTENDS Integers, Sequences, FiniteSets, TLC

(* ------------------------------ bounds -------------------------------- *)
MaxUsers == 2
MaxAdvisors == 2
MaxChatSessions == 2
MaxChatMessages == 2
MaxColleges == 3
MaxPosition == 3
MaxRecommendations == 2
MaxShareList == 2
MaxInFlight == 2
GenMaxRecommendations == 4
MaxAiList == 3
SendMaxMessages == 4

(* --------------------------- value universes -------------------------- *)
\* "undefined" / "null" where the code returns no row, and req.user of a
\* request that carries no authenticated session
Undefined == 0

Usernames == {"alice", "bob"}
Passwords == {"pw12345678"}
AdvisorNames == {"Ms. Lee"}
AdvisorTypes == {"School counselor"}
CollegeNames == {"MIT"}
CollegeStatus == {"applying", "researching", "not_applying"}
Contents == {<<"h", "i">>}
DefaultTitle == <<"N", "e", "w", " ", "C", "o", "n", "v", "e", "r", "s", "a", "t", "i", "o", "n">>
NullProfile == "null"
SkippedAnswer == "User skipped this question."
StorageImpls == {"pg", "mem"}

VARIABLES
  env,                    \* process.env: which storage is built, GEMINI key set
  users,                  \* users table: id -> row
  loggedIn,               \* ids of the users that hold an authenticated session
  colleges,               \* colleges table: id -> row
  chatSessions,           \* chat_sessions table: id -> row
  chatMessages,           \* chat_messages rows in insertion order
  advisors,               \* advisors table: id -> row
  sharedChatSessions,     \* advisor id -> the session ids of its junction rows
  collegeRecommendations, \* college_recommendations table: id -> row
  nextId,                 \* the serial / counter of each table
  lastReq,                \* the handler that ran last and its HTTP status
  registering,            \* the register requests between their awaits
  sending,                \* the chat message requests between their awaits
  converting,             \* the convert requests between their awaits
  now                     \* the clock that new Date() reads

tables == <<users, loggedIn, colleges, chatSessions, chatMessages, advisors,
            sharedChatSessions, collegeRecommendations, nextId>>
waiting == <<registering, sending, converting>>
vars == <<env, tables, lastReq, waiting, now>>

Range(s) == {s[i] : i \in DOMAIN s}
Drop(f, k) == [x \in DOMAIN f \ {k} |-> f[x]]

\* Sequences over S of length 0..n
RECURSIVE SeqsUpTo(_, _)
SeqsUpTo(S, n) ==
  IF n = 0 THEN {<<>>}
  ELSE LET shorter == SeqsUpTo(S, n - 1)
       IN shorter \cup {Append(s, x) : s \in {t \in shorter : Len(t) = n - 1}, x \in S}

(* ------------------------- construction ------------------------------- *)
\* a register request that is not between its awaits
Idle == [pc |-> "idle", username |-> "", password |-> <<>>]

\* a chat message request that is not between its awaits.  A request in
\* flight keeps req.user, the session id it addresses, cleanedContent, the
\* two flags of its body, the id of the user message it has stored and the
\* model endpoint its AI call went to.
SendIdle ==
  [pc |-> "idle", user |-> 0, sessionId |-> 0, content |-> <<>>,
   useWebSearch |-> "undefined", extendThinking |-> "undefined",
   savedMessage |-> 0, endpoint |-> "none"]

\* a convert request that is not between its awaits; in flight it keeps
\* req.user, the recommendation it has found and the status of its body
ConvertIdle ==
  [pc |-> "idle", user |-> 0, recommendationId |-> 0, name |-> "", status |-> ""]

\* the literal POST /api/register passes when the request has no onboarding
RegisterDefaultOnboarding ==
  [programs |-> SkippedAnswer, academicEnv |-> SkippedAnswer,
   location |-> SkippedAnswer, culture |-> SkippedAnswer,
   other |-> SkippedAnswer]

\* the literal of createUser
DefaultOnboarding ==
  [programs |-> SkippedAnswer, academicEnv |-> SkippedAnswer,
   location |-> SkippedAnswer, culture |-> SkippedAnswer,
   academicStats |-> SkippedAnswer, financialAid |-> SkippedAnswer,
   other |-> SkippedAnswer]

Init ==
  /\ env \in [storage : StorageImpls, apiKey : BOOLEAN]
  /\ users = <<>>
  /\ loggedIn = {}
  /\ colleges = <<>>
  /\ chatSessions = <<>>
  /\ chatMessages = <<>>
  /\ advisors = <<>>
  /\ sharedChatSessions = [a \in 1..MaxAdvisors |-> <<>>]
  /\ collegeRecommendations = <<>>
  /\ nextId = [user |-> 1, college |-> 1, chatSession |-> 1, chatMessage |-> 1,
               advisor |-> 1, recommendation |-> 1]
  /\ lastReq = [op |-> "none", status |-> 0]
  /\ registering = [p \in 1..MaxInFlight |-> Idle]
  /\ sending = [p \in 1..MaxInFlight |-> SendIdle]
  /\ converting = [p \in 1..MaxInFlight |-> ConvertIdle]
  /\ now = 0

\* the handler answers; the requests that are waiting stay as they are, and
\* no time that a timestamp could show has passed
Reply(op, status) ==
  /\ lastReq' = [op |-> op, status |-> status]
  /\ UNCHANGED <<waiting, now>>

\* req.user of an incoming request: a logged-in user, or none
ReqUsers == loggedIn \cup {Undefined}

(* ============================ storage ================================= *)

(* ------------------------------- users -------------------------------- *)
getUserByUsername(username) ==
  IF \E id \in DOMAIN users : users[id].username = username
  THEN CHOOSE id \in DOMAIN users : users[id].username = username
  ELSE Undefined

hashPassword(password) == <<"scrypt", password>>

createUser(insertUser) ==
  users @@ (nextId.user :>
    [username |-> insertUser.username,
     password |-> insertUser.password,
     profileDescription |-> NullProfile,
     onboarding |-> insertUser.onboarding])

updateUserProfileDescription(userId, profileDescription) ==
  IF userId \in DOMAIN users
  THEN [users EXCEPT ![userId].profileDescription = profileDescription]
  ELSE users

(* ------------------------------- chat --------------------------------- *)
createChatSession(session) ==
  chatSessions @@ (nextId.chatSession :>
    [id |-> nextId.chatSession, userId |-> session.userId, title |-> session.title])

getChatSession(sessionId) ==
  IF sessionId \in DOMAIN chatSessions THEN sessionId ELSE Undefined

updateChatSessionTitle(sessionId, title) ==
  IF sessionId \in DOMAIN chatSessions
  THEN [chatSessions EXCEPT ![sessionId].title = title]
  ELSE chatSessions

getChatMessages(sessionId) ==
  SelectSeq(chatMessages, LAMBDA m : m.sessionId = sessionId)

\* the orders in which the messages of a session can be listed.
\* MemStorage keeps one array per session and returns it as it is.
\* PostgresStorage answers ORDER BY created_at, which leaves the order of
\* rows with equal timestamps open.  (getChatMessages above is the listing
\* in insertion order, which is one of them.)
ListOrdersNewestFirst(sessionId) ==
  LET rows == getChatMessages(sessionId)
  IN {[i \in 1..Len(rows) |-> rows[Len(rows) + 1 - i]]}

ListOrders(sessionId) ==
  LET rows == getChatMessages(sessionId)
      n == Len(rows)
      sorted == {f \in [1..n -> 1..n] :
                   /\ \A i, j \in 1..n : i # j => f[i] # f[j]
                   /\ \A i, j \in 1..n :
                         i < j => rows[f[i]].createdAt <= rows[f[j]].createdAt}
  IN IF env.storage = "mem"
     THEN {rows}
     ELSE {[i \in 1..n |-> rows[f[i]]] : f \in sorted}

\* msgs is the table the row is appended to, id the serial it draws, at
\* what new Date() reads
createChatMessage(msgs, id, at, message) ==
  Append(msgs, [id |-> id,
                sessionId |-> message.sessionId,
                sender |-> message.sender,
                content |-> message.content,
                createdAt |-> at])

\* a delete that takes the session row and leaves its messages
deleteChatSessionMessagesKept(sessionId) == chatMessages

\* both implementations remove the session's messages, then the session
deleteChatSessionMessages(sessionId) ==
  SelectSeq(chatMessages, LAMBDA m : m.sessionId # sessionId)

(* ------------------------------ advisors ------------------------------ *)
getAdvisors(userId) == {a \in DOMAIN advisors : advisors[a].userId = userId}

randomUUID == <<"uuid", nextId.advisor>>

createAdvisor(advisor) ==
  advisors @@ (nextId.advisor :>
    [id |-> nextId.advisor, userId |-> advisor.userId, name |-> advisor.name,
     type |-> advisor.type, shareToken |-> randomUUID, isActive |-> TRUE])

\* PostgresStorage selects on the token alone; MemStorage also requires
\* isActive === true.  storage names the implementation.
getAdvisorByShareTokenIn(storage, shareToken) ==
  LET found == {a \in DOMAIN advisors :
                  /\ advisors[a].shareToken = shareToken
                  /\ (storage = "mem" => advisors[a].isActive)}
  IN IF found = {} THEN Undefined ELSE CHOOSE a \in found : TRUE

\* the method of the implementation that was built at start-up
getAdvisorByShareToken(shareToken) == getAdvisorByShareTokenIn(env.storage, shareToken)

\* an update that issues a new link when the advisor is switched on again
updateAdvisorActiveStatusNewLink(advisorId, isActive) ==
  IF advisorId \in DOMAIN advisors
  THEN [advisors EXCEPT ![advisorId].isActive = isActive,
                        ![advisorId].shareToken =
                            IF isActive THEN <<"uuid", 0>> ELSE @]
  ELSE advisors

updateAdvisorActiveStatus(advisorId, isActive) ==
  IF advisorId \in DOMAIN advisors
  THEN [advisors EXCEPT ![advisorId].isActive = isActive]
  ELSE advisors

deleteAdvisor(advisorId) == Drop(advisors, advisorId)

(* --------------------------- shared chats ----------------------------- *)
\* the rows of one advisor, in insertion order (MemStorage keeps exactly
\* this list per advisor; PostgresStorage selects the rows by advisor_id)
getSharedChatSessions(advisorId) == sharedChatSessions[advisorId]

shareChatsWithAdvisor(advisorId, sessionIds) ==
  LET existing == Range(getSharedChatSessions(advisorId))
      newSessionIds == SelectSeq(sessionIds, LAMBDA id : id \notin existing)
  IN [sharedChatSessions EXCEPT ![advisorId] = @ \o newSessionIds]

unshareChatsWithAdvisor(advisorId, sessionIds) ==
  [sharedChatSessions EXCEPT ![advisorId] =
      SelectSeq(@, LAMBDA id : id \notin Range(sessionIds))]

\* a read that lists every session of the advisor's owner
getSharedChatSessionsForAdvisorAll(shareToken) ==
  LET advisor == getAdvisorByShareToken(shareToken)
  IN IF advisor = Undefined THEN <<>>
     ELSE LET ids == SelectSeq([i \in 1..MaxChatSessions |-> i],
                 LAMBDA id : /\ id \in DOMAIN chatSessions
                             /\ chatSessions[id].userId = advisors[advisor].userId)
          IN [i \in DOMAIN ids |-> chatSessions[ids[i]]]

\* the chat sessions joined to the advisor's junction rows
getSharedChatSessionsForAdvisor(shareToken) ==
  LET advisor == getAdvisorByShareToken(shareToken)
  IN IF advisor = Undefined THEN <<>>
     ELSE LET ids == SelectSeq(getSharedChatSessions(advisor),
                               LAMBDA id : id \in DOMAIN chatSessions)
          IN [i \in DOMAIN ids |-> chatSessions[ids[i]]]

getSharedChatMessagesForAdvisor(shareToken, sessionId) ==
  LET advisor == getAdvisorByShareToken(shareToken)
  IN IF advisor = Undefined THEN <<>>
     ELSE IF sessionId \notin Range(getSharedChatSessions(advisor)) THEN <<>>
     ELSE getChatMessages(sessionId)

(* --------------------------- recommendations -------------------------- *)
\* ordered by createdAt descending: newest id first
RECURSIVE DescIds(_)
DescIds(S) ==
  IF S = {} THEN <<>>
  ELSE LET m == CHOOSE x \in S : \A y \in S : y <= x
       IN <<m>> \o DescIds(S \ {m})

getCollegeRecommendations(userId) ==
  LET ids == DescIds({r \in DOMAIN collegeRecommendations :
                        collegeRecommendations[r].userId = userId})
  IN [i \in DOMAIN ids |-> collegeRecommendations[ids[i]]]

createCollegeRecommendation(recommendation) ==
  collegeRecommendations @@ (nextId.recommendation :>
    [id |-> nextId.recommendation,
     userId |-> recommendation.userId,
     name |-> recommendation.name,
     description |-> recommendation.description,
     recommendedBy |-> recommendation.recommendedBy])

deleteCollegeRecommendation(recommendationId) ==
  Drop(collegeRecommendations, recommendationId)

(* ------------------------------ colleges ------------------------------ *)
\* result.sort((a, b) => a.position - b.position): a stable sort of the
\* rows, which both stores yield in id order
\* A stored position is a JavaScript number: row.position is its whole part
\* and row.half says whether it lies half a unit above it (1.5 is position 1,
\* half TRUE).  Doubled is twice the number, an integer.
Doubled(c) == 2 * colleges[c].position + (IF colleges[c].half THEN 1 ELSE 0)

RECURSIVE SortByPosition(_)
SortByPosition(S) ==
  IF S = {} THEN <<>>
  ELSE LET m == CHOOSE x \in S : \A y \in S :
                  \/ Doubled(x) < Doubled(y)
                  \/ (Doubled(x) = Doubled(y) /\ x <= y)
       IN <<colleges[m]>> \o SortByPosition(S \ {m})

getCollegesByStatus(userId, status) ==
  SortByPosition({c \in DOMAIN colleges :
                    colleges[c].userId = userId /\ colleges[c].status = status})

\* the user's colleges in that status
InStatus(userId, status) ==
  {d \in DOMAIN colleges : /\ colleges[d].userId = userId
                           /\ colleges[d].status = status}

\* one of them with the greatest position
Top(rows) == CHOOSE d \in rows : \A e \in rows : Doubled(e) <= Doubled(d)

\* The greatest position of the user's colleges in that status, plus one.
\* PostgresStorage: Math.max(...positions) + 1, and 1 when there are no rows.
\* MemStorage: reduce((max, c) => Math.max(max, c.position), 0) + 1, so the
\* maximum is never taken below 0.
NextPositionIn(storage, userId, status) ==
  LET rows == InStatus(userId, status)
  IN IF rows = {} THEN 1
     ELSE IF storage = "mem" /\ Doubled(Top(rows)) < 0 THEN 1
     ELSE colleges[Top(rows)].position + 1

NextPosition(userId, status) == NextPositionIn(env.storage, userId, status)

NextHalfIn(storage, userId, status) ==
  LET rows == InStatus(userId, status)
  IN IF rows = {} THEN FALSE
     ELSE IF storage = "mem" /\ Doubled(Top(rows)) < 0 THEN FALSE
     ELSE colleges[Top(rows)].half

NextHalf(userId, status) == NextHalfIn(env.storage, userId, status)

\* insertCollegeSchema leaves status optional; "undefined" stands for a body
\* without it.  PostgresStorage does not send the column then and the row
\* gets the column default; its query for the greatest position compares
\* status with the missing value and finds no row.  MemStorage stores the
\* missing value as the row's status and compares with ===.
StoredStatusIn(storage, status) ==
  IF status = "undefined" /\ storage = "pg" THEN "researching" ELSE status

StoredStatus(status) == StoredStatusIn(env.storage, status)

\* college.positionGiven is FALSE when position === undefined
createCollegeIn(storage, college) ==
  colleges @@ (nextId.college :>
    [id |-> nextId.college,
     userId |-> college.userId,
     name |-> college.name,
     status |-> StoredStatusIn(storage, college.status),
     position |-> IF ~college.positionGiven
                  THEN NextPositionIn(storage, college.userId, college.status)
                  ELSE college.position,
     half |-> IF ~college.positionGiven
              THEN NextHalfIn(storage, college.userId, college.status)
              ELSE FALSE])

createCollege(college) == createCollegeIn(env.storage, college)

updateCollegeStatusIn(storage, collegeId, status) ==
  IF collegeId \in DOMAIN colleges
  THEN [colleges EXCEPT ![collegeId].status = status,
                        ![collegeId].position =
                           NextPositionIn(storage, colleges[collegeId].userId, status),
                        ![collegeId].half =
                           NextHalfIn(storage, colleges[collegeId].userId, status)]
  ELSE colleges

updateCollegeStatus(collegeId, status) == updateCollegeStatusIn(env.storage, collegeId, status)

\* position: [whole, half], the number of the request
updateCollegePosition(collegeId, position) ==
  IF collegeId \in DOMAIN colleges
  THEN [colleges EXCEPT ![collegeId].position = position.whole,
                        ![collegeId].half = position.half]
  ELSE colleges

deleteCollege(collegeId) == Drop(colleges, collegeId)


(* ============================ handlers ================================ *)

(* -------------------- server/auth.ts: POST /api/register -------------- *)
Register(username, password) ==
  /\ nextId.user <= MaxUsers
  /\ UNCHANGED <<env, colleges, chatSessions, chatMessages, advisors,
                 sharedChatSessions, collegeRecommendations>>
  /\ IF getUserByUsername(username) # Undefined
     THEN /\ UNCHANGED <<users, loggedIn, nextId>>
          /\ Reply("register", 400)
     ELSE /\ users' = createUser([username |-> username,
                                  password |-> hashPassword(password),
                                  onboarding |-> RegisterDefaultOnboarding])
          /\ nextId' = [nextId EXCEPT !.user = @ + 1]
          /\ loggedIn' = loggedIn \cup {nextId.user}
          /\ Reply("register", 201)

(* ---------- server/auth.ts: LocalStrategy and POST /api/login --------- *)
\* scrypt of the supplied password with the stored salt, compared with the
\* stored hash
comparePasswords(supplied, stored) == hashPassword(supplied) = stored

\* a verify callback that tells an unknown username from a wrong password
LoginResponseTelling(username, password) ==
  LET user == getUserByUsername(username)
  IN IF user = Undefined THEN [status |-> 404, user |-> Undefined]
     ELSE IF ~comparePasswords(password, users[user].password)
     THEN [status |-> 401, user |-> Undefined]
     ELSE [status |-> 200, user |-> user]

\* done(null, false) makes passport.authenticate answer 401 without a user;
\* done(null, user) lets the route answer 200 with req.user
LoginResponse(username, password) ==
  LET user == getUserByUsername(username)
  IN IF user = Undefined \/ ~comparePasswords(password, users[user].password)
     THEN [status |-> 401, user |-> Undefined]
     ELSE [status |-> 200, user |-> user]

Login(username, password) ==
  /\ UNCHANGED <<env, users, colleges, chatSessions, chatMessages, advisors,
                 sharedChatSessions, collegeRecommendations, nextId>>
  /\ LET response == LoginResponse(username, password)
     IN /\ loggedIn' = IF response.status = 200
                       THEN loggedIn \cup {response.user}
                       ELSE loggedIn
        /\ Reply("login", response.status)

(* ------------------ server/auth.ts: POST /api/logout ------------------ *)
Logout(u) ==
  /\ UNCHANGED <<env, users, colleges, chatSessions, chatMessages, advisors,
                 sharedChatSessions, collegeRecommendations, nextId>>
  /\ loggedIn' = loggedIn \ {u}
  /\ Reply("logout", 200)

\* the same handler with its awaits visible: other requests run between
\* `await storage.getUserByUsername` and `await storage.createUser` (the
\* scrypt hash is computed in between).  RegisterCheck is the handler up to
\* the first await's result, RegisterCreate the rest.
RegisterCheck(p, username, password) ==
  /\ registering[p].pc = "idle"
  /\ UNCHANGED <<env, tables, sending, converting, now>>
  /\ IF getUserByUsername(username) # Undefined
     THEN Reply("register", 400)
     ELSE /\ registering' = [registering EXCEPT ![p] =
                 [pc |-> "checked", username |-> username,
                  password |-> hashPassword(password)]]
          /\ UNCHANGED lastReq

\* users.username is UNIQUE in the database: the INSERT of a name that is
\* there by now throws, and the handler passes the error on (500).
\* MemStorage.createUser sets the row without looking at the names.
RegisterCreate(p) ==
  /\ registering[p].pc = "checked"
  /\ nextId.user <= MaxUsers
  /\ registering' = [registering EXCEPT ![p] = Idle]
  /\ UNCHANGED <<env, colleges, chatSessions, chatMessages, advisors,
                 sharedChatSessions, collegeRecommendations, sending,
                 converting, now>>
  /\ IF env.storage = "pg" /\ getUserByUsername(registering[p].username) # Undefined
     THEN /\ UNCHANGED <<users, loggedIn, nextId>>
          /\ lastReq' = [op |-> "register", status |-> 500]
     ELSE /\ users' = createUser([username |-> registering[p].username,
                                  password |-> registering[p].password,
                                  onboarding |-> RegisterDefaultOnboarding])
          /\ nextId' = [nextId EXCEPT !.user = @ + 1]
          /\ loggedIn' = loggedIn \cup {nextId.user}
          /\ lastReq' = [op |-> "register", status |-> 201]

(* ------------------------- POST /api/advisors ------------------------- *)
CreateAdvisor(u, name, type) ==
  /\ nextId.advisor <= MaxAdvisors
  /\ UNCHANGED <<env, users, loggedIn, colleges, chatSessions, chatMessages,
                 sharedChatSessions, collegeRecommendations>>
  /\ IF u = Undefined
     THEN /\ UNCHANGED <<advisors, nextId>>
          /\ Reply("createAdvisor", 401)
     ELSE /\ advisors' = createAdvisor([userId |-> u, name |-> name, type |-> type])
          /\ nextId' = [nextId EXCEPT !.advisor = @ + 1]
          /\ Reply("createAdvisor", 201)

(* ----------------- PATCH /api/advisors/:advisorId/status -------------- *)
UpdateAdvisorStatus(u, advisorId, isActive) ==
  /\ UNCHANGED <<env, users, loggedIn, colleges, chatSessions, chatMessages,
                 sharedChatSessions, collegeRecommendations, nextId>>
  /\ IF u = Undefined
     THEN /\ UNCHANGED advisors
          /\ Reply("setActive", 401)
     ELSE IF advisorId \notin DOMAIN advisors
     THEN /\ UNCHANGED advisors
          /\ Reply("setActive", 404)
     ELSE /\ advisors' = updateAdvisorActiveStatus(advisorId, isActive)
          /\ Reply("setActive", 200)

(* ------------------- DELETE /api/advisors/:advisorId ------------------ *)
DeleteAdvisor(u, advisorId) ==
  /\ UNCHANGED <<env, users, loggedIn, colleges, chatSessions, chatMessages,
                 sharedChatSessions, collegeRecommendations, nextId>>
  /\ IF u = Undefined
     THEN /\ UNCHANGED advisors
          /\ Reply("deleteAdvisor", 401)
     ELSE IF advisorId \notin DOMAIN advisors
     THEN /\ UNCHANGED advisors
          /\ Reply("deleteAdvisor", 500)
     ELSE /\ advisors' = deleteAdvisor(advisorId)
          /\ Reply("deleteAdvisor", 200)

(* -------------- POST /api/advisors/:advisorId/share-chats ------------- *)
\* a check that only looks whether the sessions exist
SessionsExist(u, sessionIds) ==
  \A i \in DOMAIN sessionIds : sessionIds[i] \in DOMAIN chatSessions

\* "Verify all sessions belong to the user"
SessionsAccessible(u, sessionIds) ==
  \A i \in DOMAIN sessionIds :
     /\ getChatSession(sessionIds[i]) # Undefined
     /\ chatSessions[sessionIds[i]].userId = u

ShareChats(u, advisorId, sessionIds) ==
  /\ UNCHANGED <<env, users, loggedIn, colleges, chatSessions, chatMessages,
                 advisors, collegeRecommendations, nextId>>
  /\ IF u = Undefined
     THEN /\ UNCHANGED sharedChatSessions
          /\ Reply("shareChats", 401)
     ELSE IF sessionIds = <<>>
     THEN /\ UNCHANGED sharedChatSessions
          /\ Reply("shareChats", 400)
     ELSE IF advisorId \notin getAdvisors(u)
     THEN /\ UNCHANGED sharedChatSessions
          /\ Reply("shareChats", 404)
     ELSE IF ~SessionsAccessible(u, sessionIds)
     THEN /\ UNCHANGED sharedChatSessions
          /\ Reply("shareChats", 403)
     ELSE /\ sharedChatSessions' = shareChatsWithAdvisor(advisorId, sessionIds)
          /\ Reply("shareChats", 200)

(* ------------- POST /api/advisors/:advisorId/unshare-chats ------------ *)
UnshareChats(u, advisorId, sessionIds) ==
  /\ UNCHANGED <<env, users, loggedIn, colleges, chatSessions, chatMessages,
                 advisors, collegeRecommendations, nextId>>
  /\ IF u = Undefined
     THEN /\ UNCHANGED sharedChatSessions
          /\ Reply("unshareChats", 401)
     ELSE IF sessionIds = <<>>
     THEN /\ UNCHANGED sharedChatSessions
          /\ Reply("unshareChats", 400)
     ELSE IF advisorId \notin getAdvisors(u)
     THEN /\ UNCHANGED sharedChatSessions
          /\ Reply("unshareChats", 404)
     ELSE /\ sharedChatSessions' = unshareChatsWithAdvisor(advisorId, sessionIds)
          /\ Reply("unshareChats", 200)


(* ----------------------- POST /api/chat/sessions ---------------------- *)
\* title is <<>> when the request gives none: title || "New Conversation"
CreateChatSession(u, title) ==
  /\ nextId.chatSession <= MaxChatSessions
  /\ UNCHANGED <<env, users, loggedIn, colleges, chatMessages, advisors,
                 sharedChatSessions, collegeRecommendations>>
  /\ IF u = Undefined
     THEN /\ UNCHANGED <<chatSessions, nextId>>
          /\ Reply("createSession", 401)
     ELSE /\ chatSessions' = createChatSession(
               [userId |-> u, title |-> IF title = <<>> THEN DefaultTitle ELSE title])
          /\ nextId' = [nextId EXCEPT !.chatSession = @ + 1]
          /\ Reply("createSession", 200)

(* ---------------- DELETE /api/chat/sessions/:sessionId ---------------- *)
DeleteChatSession(u, sessionId) ==
  /\ UNCHANGED <<env, users, loggedIn, colleges, advisors, sharedChatSessions,
                 collegeRecommendations, nextId>>
  /\ IF u = Undefined
     THEN /\ UNCHANGED <<chatSessions, chatMessages>>
          /\ Reply("deleteSession", 401)
     ELSE IF getChatSession(sessionId) = Undefined
     THEN /\ UNCHANGED <<chatSessions, chatMessages>>
          /\ Reply("deleteSession", 404)
     ELSE IF chatSessions[sessionId].userId # u
     THEN /\ UNCHANGED <<chatSessions, chatMessages>>
          /\ Reply("deleteSession", 403)
     ELSE /\ chatMessages' = deleteChatSessionMessages(sessionId)
          /\ chatSessions' = Drop(chatSessions, sessionId)
          /\ Reply("deleteSession", 200)

(* -------------- POST /api/chat/sessions/:sessionId/messages ----------- *)
\* cleanedContent.length > 30 ? cleanedContent.substring(0, 27) + "..."
TitleLimit == 30
TruncatedTitle(content) ==
  IF Len(content) > TitleLimit
  THEN SubSeq(content, 1, TitleLimit - 3) \o <<".", ".", ".">>
  ELSE content

\* content.endsWith("...") ? content.slice(0, -3) : content
cleanedContent(content) ==
  IF Len(content) >= 3 /\ SubSeq(content, Len(content) - 2, Len(content)) = <<".", ".", ".">>
  THEN SubSeq(content, 1, Len(content) - 3)
  ELSE content

\* what the profile prompt's AI call can come back with: texts that include
\* the word NULL, texts that do not, the empty text, or an exception
NullReplies == {"NULL", "No new information: NULL"}
ProfileOutcomes == NullReplies \cup {"updated in chat", "", "throws"}

\* a profile check that hands back whatever text came
checkForProfileUpdateAnyText(reply) ==
  IF reply = "throws" THEN NullProfile ELSE reply

\* checkForProfileUpdate: null when the call throws or the text includes
\* "NULL", else the text
checkForProfileUpdate(reply) ==
  IF reply = "throws" \/ reply \in NullReplies THEN NullProfile ELSE reply

\* `if (currentUser && currentUser.profileDescription)` and then
\* `if (updatedProfile)`: the description the request stores, NullProfile
\* when it stores none.  Null and the empty string are both falsy.
ProfileToSave(userId, reply) ==
  IF users[userId].profileDescription \in {NullProfile, ""}
  THEN NullProfile
  ELSE IF checkForProfileUpdate(reply) \in {NullProfile, ""}
  THEN NullProfile
  ELSE checkForProfileUpdate(reply)

\* an endpoint choice that looks at useWebSearch first
modelEndpointSearchFirst(useWebSearch, extendThinking) ==
  IF useWebSearch THEN "v1beta/models/gemini-2.0-flash"
  ELSE IF extendThinking THEN "v1beta/models/gemini-2.5-flash-preview-04-17"
  ELSE "v1/models/gemini-2.0-flash"

\* generateAIResponse: the endpoint the request is sent to
modelEndpoint(useWebSearch, extendThinking) ==
  IF extendThinking THEN "v1beta/models/gemini-2.5-flash-preview-04-17"
  ELSE IF useWebSearch THEN "v1beta/models/gemini-2.0-flash"
  ELSE "v1/models/gemini-2.0-flash"

\* the handler as one step, for a body that carries content only.
\* ai: whether generateAIResponse returns or throws; profile: what the AI
\* call of checkForProfileUpdate comes back with.  The AI call takes time:
\* the reply's createdAt is later than the user message's.
SendMessage(u, sessionId, content, ai, profile) ==
  /\ nextId.chatMessage + 1 <= MaxChatMessages
  /\ UNCHANGED <<env, loggedIn, colleges, advisors, sharedChatSessions,
                 collegeRecommendations, waiting>>
  /\ IF u = Undefined
     THEN /\ UNCHANGED <<users, chatSessions, chatMessages, nextId>>
          /\ Reply("sendMessage", 401)
     ELSE IF content = <<>>
     THEN /\ UNCHANGED <<users, chatSessions, chatMessages, nextId>>
          /\ Reply("sendMessage", 400)
     ELSE IF getChatSession(sessionId) = Undefined
     THEN /\ UNCHANGED <<users, chatSessions, chatMessages, nextId>>
          /\ Reply("sendMessage", 404)
     ELSE IF chatSessions[sessionId].userId # u
     THEN /\ UNCHANGED <<users, chatSessions, chatMessages, nextId>>
          /\ Reply("sendMessage", 403)
     ELSE
       LET userMsgId == nextId.chatMessage
           withUser == createChatMessage(chatMessages, userMsgId, now,
                         [sessionId |-> sessionId, sender |-> "user",
                          content |-> cleanedContent(content)])
           first == getChatMessages(sessionId) = <<>>
           withAi == createChatMessage(withUser, userMsgId + 1, now + 1,
                         [sessionId |-> sessionId, sender |-> "ai",
                          content |-> <<"a", "i">>])
           saved == ProfileToSave(u, profile)
       IN /\ chatSessions' = IF first
                             THEN updateChatSessionTitle(sessionId,
                                    TruncatedTitle(cleanedContent(content)))
                             ELSE chatSessions
          /\ IF ~env.apiKey
             THEN /\ chatMessages' = withUser
                  /\ nextId' = [nextId EXCEPT !.chatMessage = @ + 1]
                  /\ UNCHANGED <<users, now>>
                  /\ lastReq' = [op |-> "sendMessage", status |-> 500]
             ELSE IF ai = "fail"
             THEN /\ chatMessages' = withUser
                  /\ nextId' = [nextId EXCEPT !.chatMessage = @ + 1]
                  /\ UNCHANGED <<users, now>>
                  /\ lastReq' = [op |-> "sendMessage", status |-> 200]
             ELSE /\ chatMessages' = withAi
                  /\ nextId' = [nextId EXCEPT !.chatMessage = @ + 2]
                  /\ now' = now + 1
                  /\ users' = IF saved # NullProfile
                              THEN updateUserProfileDescription(u, saved)
                              ELSE users
                  /\ lastReq' = [op |-> "sendMessage", status |-> 200]

\* the JSON of the answer once the user message is stored: the id of the
\* stored user message and of the AI message it carries (Undefined when the
\* key is absent from the JSON) and whether it has an "error" key
SendMessageBody(ai) ==
  IF ~env.apiKey
  THEN [userMessage |-> Undefined, aiMessage |-> Undefined, error |-> TRUE]
  ELSE IF ai = "fail"
  THEN [userMessage |-> nextId.chatMessage, aiMessage |-> Undefined, error |-> TRUE]
  ELSE [userMessage |-> nextId.chatMessage, aiMessage |-> nextId.chatMessage + 1,
        error |-> FALSE]

\* profileUpdated of the answer when the AI reply has been stored
SendMessageProfileUpdated(u, profile) == ProfileToSave(u, profile) # NullProfile

(* ------- POST /api/chat/sessions/:sessionId/messages, await by await ---- *)
\* values of a flag of the body, as JSON; !!flag is true for the truthy ones
FlagValues == {"undefined", "false", "true"}
Truthy(flag) == flag \notin {"undefined", "false"}

\* the handler up to its call of createChatMessage: the checks, the
\* session looked up and the attachments parsed
SendStart(p, u, sessionId, content, attachments, useWebSearch, extendThinking) ==
  /\ sending[p].pc = "idle"
  /\ UNCHANGED <<env, tables, registering, converting, now>>
  /\ IF u = Undefined
     THEN Reply("sendMessage", 401)
     ELSE IF content = <<>>
     THEN Reply("sendMessage", 400)
     ELSE IF getChatSession(sessionId) = Undefined
     THEN Reply("sendMessage", 404)
     ELSE IF chatSessions[sessionId].userId # u
     THEN Reply("sendMessage", 403)
     ELSE IF attachments = "malformed"
     THEN Reply("sendMessage", 400)
     ELSE /\ sending' = [sending EXCEPT ![p] =
                 [pc |-> "checked", user |-> u, sessionId |-> sessionId,
                  content |-> cleanedContent(content),
                  useWebSearch |-> useWebSearch, extendThinking |-> extendThinking,
                  savedMessage |-> 0, endpoint |-> "none"]]
          /\ UNCHANGED lastReq

\* const savedMessage = await dbStorage.createChatMessage(messageData):
\* neither storage looks whether the session is still there
SendPersist(p) ==
  /\ sending[p].pc = "checked"
  /\ nextId.chatMessage < SendMaxMessages
  /\ UNCHANGED <<env, users, loggedIn, colleges, chatSessions, advisors,
                 sharedChatSessions, collegeRecommendations, registering,
                 converting, now, lastReq>>
  /\ chatMessages' = createChatMessage(chatMessages, nextId.chatMessage, now,
                        [sessionId |-> sending[p].sessionId, sender |-> "user",
                         content |-> sending[p].content])
  /\ nextId' = [nextId EXCEPT !.chatMessage = @ + 1]
  /\ sending' = [sending EXCEPT ![p].pc = "saved",
                                ![p].savedMessage = nextId.chatMessage]

\* the messages are read back and the title is set if the stored message
\* is the only one; then the key is looked up and the AI call is issued
SendTitle(p) ==
  /\ sending[p].pc = "saved"
  /\ UNCHANGED <<env, users, loggedIn, colleges, chatMessages, advisors,
                 sharedChatSessions, collegeRecommendations, nextId,
                 registering, converting, now>>
  /\ LET messages == getChatMessages(sending[p].sessionId)
     IN chatSessions' =
          IF Len(messages) = 1 /\ messages[1].id = sending[p].savedMessage
          THEN updateChatSessionTitle(sending[p].sessionId,
                                      TruncatedTitle(sending[p].content))
          ELSE chatSessions
  /\ IF ~env.apiKey
     THEN /\ sending' = [sending EXCEPT ![p] = SendIdle]
          /\ lastReq' = [op |-> "sendMessage", status |-> 500]
     ELSE /\ sending' = [sending EXCEPT
                 ![p].pc = "asked",
                 ![p].endpoint = modelEndpoint(Truthy(sending[p].useWebSearch),
                                               Truthy(sending[p].extendThinking))]
          /\ UNCHANGED lastReq

\* generateAIResponse returns or throws; the reply is stored, the profile
\* is checked and the request is answered
SendAi(p, ai, profile) ==
  /\ sending[p].pc = "asked"
  /\ UNCHANGED <<env, loggedIn, colleges, chatSessions, advisors,
                 sharedChatSessions, collegeRecommendations, registering,
                 converting>>
  /\ sending' = [sending EXCEPT ![p] = SendIdle]
  /\ lastReq' = [op |-> "sendMessage", status |-> 200]
  /\ IF ai = "fail"
     THEN UNCHANGED <<users, chatMessages, nextId, now>>
     ELSE LET saved == ProfileToSave(sending[p].user, profile)
          IN /\ nextId.chatMessage <= SendMaxMessages
             /\ now' = now + 1
             /\ chatMessages' = createChatMessage(chatMessages, nextId.chatMessage,
                                   now + 1,
                                   [sessionId |-> sending[p].sessionId,
                                    sender |-> "ai", content |-> <<"a", "i">>])
             /\ nextId' = [nextId EXCEPT !.chatMessage = @ + 1]
             /\ users' = IF saved # NullProfile
                         THEN updateUserProfileDescription(sending[p].user, saved)
                         ELSE users

\* MemStorage's methods return promises that are settled already: a handler
\* that awaits one goes on before the server turns to any other request.
\* With PostgresStorage every await waits for the database, and the AI call
\* waits for the network with either storage.
MemChain ==
  /\ env.storage = "mem"
  /\ \E p \in 1..MaxInFlight :
        sending[p].pc \in {"checked", "saved"} \/ converting[p].pc # "idle"

(* ------------------------ POST /api/chat/messages ---------------------- *)
\* attachments of the body: absent, an array whose elements pass
\* fileAttachmentSchema, or an array with an element that does not
Attachments == {"none", "valid", "malformed"}

\* a new session and its first message in one request.  The session is
\* created first; the attachments are parsed after that.
SendNewSessionMessage(u, content, attachments, ai, profile) ==
  /\ nextId.chatMessage + 1 <= MaxChatMessages
  /\ nextId.chatSession <= MaxChatSessions
  /\ UNCHANGED <<env, loggedIn, colleges, advisors, sharedChatSessions,
                 collegeRecommendations, waiting>>
  /\ IF u = Undefined
     THEN /\ UNCHANGED <<users, chatSessions, chatMessages, nextId>>
          /\ Reply("sendNewSessionMessage", 401)
     ELSE IF content = <<>>
     THEN /\ UNCHANGED <<users, chatSessions, chatMessages, nextId>>
          /\ Reply("sendNewSessionMessage", 400)
     ELSE
       LET sessionId == nextId.chatSession
           created == createChatSession([userId |-> u, title |-> DefaultTitle])
           userMsgId == nextId.chatMessage
           withUser == createChatMessage(chatMessages, userMsgId, now,
                         [sessionId |-> sessionId, sender |-> "user",
                          content |-> cleanedContent(content)])
           withAi == createChatMessage(withUser, userMsgId + 1, now + 1,
                         [sessionId |-> sessionId, sender |-> "ai",
                          content |-> <<"a", "i">>])
           titled == [created EXCEPT ![sessionId].title =
                        TruncatedTitle(cleanedContent(content))]
           saved == ProfileToSave(u, profile)
       IN IF attachments = "malformed"
          THEN /\ chatSessions' = created
               /\ nextId' = [nextId EXCEPT !.chatSession = @ + 1]
               /\ UNCHANGED <<users, chatMessages, now>>
               /\ lastReq' = [op |-> "sendNewSessionMessage", status |-> 400]
          ELSE
            /\ chatSessions' = titled
            /\ IF ~env.apiKey
               THEN /\ chatMessages' = withUser
                    /\ nextId' = [nextId EXCEPT !.chatSession = @ + 1,
                                                !.chatMessage = @ + 1]
                    /\ UNCHANGED <<users, now>>
                    /\ lastReq' = [op |-> "sendNewSessionMessage", status |-> 500]
               ELSE IF ai = "fail"
               THEN /\ chatMessages' = withUser
                    /\ nextId' = [nextId EXCEPT !.chatSession = @ + 1,
                                                !.chatMessage = @ + 1]
                    /\ UNCHANGED <<users, now>>
                    /\ lastReq' = [op |-> "sendNewSessionMessage", status |-> 200]
               ELSE /\ chatMessages' = withAi
                    /\ nextId' = [nextId EXCEPT !.chatSession = @ + 1,
                                                !.chatMessage = @ + 2]
                    /\ now' = now + 1
                    /\ users' = IF saved # NullProfile
                                THEN updateUserProfileDescription(u, saved)
                                ELSE users
                    /\ lastReq' = [op |-> "sendNewSessionMessage", status |-> 200]

(* ------------------------ GET /api/shared/:shareToken ------------------ *)
\* const userData = { username, profileDescription }
SharedUserData(user) ==
  [username |-> user.username, profileDescription |-> user.profileDescription]

\* the JSON of a 200 answer
SharedProfileBody(shareToken) ==
  LET advisor == getAdvisorByShareToken(shareToken)
      owner == advisors[advisor].userId
  IN [advisor |-> [name |-> advisors[advisor].name, type |-> advisors[advisor].type],
      user |-> SharedUserData(users[owner]),
      colleges |-> getCollegesByStatus(owner, "applying")
                   \o getCollegesByStatus(owner, "researching")
                   \o getCollegesByStatus(owner, "not_applying"),
      recommendations |-> getCollegeRecommendations(owner),
      sharedChatSessions |-> getSharedChatSessionsForAdvisor(shareToken)]

SharedProfileStatus(shareToken) ==
  LET advisor == getAdvisorByShareToken(shareToken)
  IN IF advisor = Undefined THEN 404
     ELSE IF advisors[advisor].userId \notin DOMAIN users THEN 404
     ELSE 200

SharedProfile(shareToken) ==
  /\ UNCHANGED <<env, tables>>
  /\ Reply("sharedProfile", SharedProfileStatus(shareToken))

(* ------- GET /api/shared/:shareToken/chat/:sessionId/messages -------- *)
\* always 200; the JSON is the message list, empty when access is denied
SharedMessagesBody(shareToken, sessionId) ==
  getSharedChatMessagesForAdvisor(shareToken, sessionId)

SharedMessages(shareToken, sessionId) ==
  /\ UNCHANGED <<env, tables>>
  /\ Reply("sharedMessages", 200)

(* -------------- POST /api/shared/:shareToken/recommendations ---------- *)
\* without GEMINI_API_KEY, and when the enrichment call throws, the
\* fallback texts are stored
AddAdvisorRecommendation(shareToken, name, ai) ==
  /\ nextId.recommendation <= MaxRecommendations
  /\ UNCHANGED <<env, users, loggedIn, colleges, chatSessions, chatMessages,
                 advisors, sharedChatSessions>>
  /\ LET advisor == getAdvisorByShareToken(shareToken)
     IN IF advisor = Undefined
        THEN /\ UNCHANGED <<collegeRecommendations, nextId>>
             /\ Reply("advisorRecommendation", 404)
        ELSE IF advisors[advisor].userId \notin DOMAIN users
        THEN /\ UNCHANGED <<collegeRecommendations, nextId>>
             /\ Reply("advisorRecommendation", 404)
        ELSE /\ collegeRecommendations' = createCollegeRecommendation(
                  [userId |-> advisors[advisor].userId,
                   name |-> name,
                   description |-> IF env.apiKey /\ ai = "ok"
                                   THEN "generated"
                                   ELSE "Recommended by your advisor.",
                   recommendedBy |-> advisors[advisor].name])
             /\ nextId' = [nextId EXCEPT !.recommendation = @ + 1]
             /\ Reply("advisorRecommendation", 201)

(* --------------------------- POST /api/colleges ------------------------ *)
\* req.body gives name and status, and position or not
CreateCollege(u, name, status, positionGiven, position) ==
  /\ nextId.college <= MaxColleges
  /\ UNCHANGED <<env, users, loggedIn, chatSessions, chatMessages, advisors,
                 sharedChatSessions, collegeRecommendations>>
  /\ IF u = Undefined
     THEN /\ UNCHANGED <<colleges, nextId>>
          /\ Reply("createCollege", 401)
     ELSE /\ colleges' = createCollege([userId |-> u, name |-> name, status |-> status,
                                        positionGiven |-> positionGiven,
                                        position |-> position])
          /\ colleges'[nextId.college].position <= MaxPosition
          /\ nextId' = [nextId EXCEPT !.college = @ + 1]
          /\ Reply("createCollege", 201)

(* ----------------- PATCH /api/colleges/:collegeId/status -------------- *)
UpdateCollegeStatus(u, collegeId, status) ==
  /\ UNCHANGED <<env, users, loggedIn, chatSessions, chatMessages, advisors,
                 sharedChatSessions, collegeRecommendations, nextId>>
  /\ IF u = Undefined
     THEN /\ UNCHANGED colleges
          /\ Reply("updateCollegeStatus", 401)
     ELSE IF status \notin CollegeStatus
     THEN /\ UNCHANGED colleges
          /\ Reply("updateCollegeStatus", 400)
     ELSE IF collegeId \notin DOMAIN colleges
     THEN /\ UNCHANGED colleges
          /\ Reply("updateCollegeStatus", 404)
     ELSE /\ colleges' = updateCollegeStatus(collegeId, status)
          /\ colleges'[collegeId].position <= MaxPosition
          /\ Reply("updateCollegeStatus", 200)

(* ---------------- PATCH /api/colleges/:collegeId/position ------------- *)
\* body: req.body.position as [type, whole, half]; type is what typeof
\* gives, whole and half the number when it is one.  The position column is
\* an INTEGER: the UPDATE of PostgresStorage with a number that is not whole
\* is refused by the database and the handler passes the error on (500).
PatchCollegePosition(u, collegeId, body) ==
  /\ UNCHANGED <<env, users, loggedIn, chatSessions, chatMessages, advisors,
                 sharedChatSessions, collegeRecommendations, nextId>>
  /\ IF u = Undefined
     THEN /\ UNCHANGED colleges
          /\ Reply("updateCollegePosition", 401)
     ELSE IF body.type # "number" \/ body.whole < 0
     THEN /\ UNCHANGED colleges
          /\ Reply("updateCollegePosition", 400)
     ELSE IF env.storage = "pg" /\ body.half
     THEN /\ UNCHANGED colleges
          /\ Reply("updateCollegePosition", 500)
     ELSE IF collegeId \notin DOMAIN colleges
     THEN /\ UNCHANGED colleges
          /\ Reply("updateCollegePosition", 404)
     ELSE /\ colleges' = updateCollegePosition(collegeId,
                            [whole |-> body.whole, half |-> body.half])
          /\ Reply("updateCollegePosition", 200)

\* the request with a whole number as position
UpdateCollegePosition(u, collegeId, position) ==
  PatchCollegePosition(u, collegeId,
                       [type |-> "number", whole |-> position, half |-> FALSE])

(* -------------------- DELETE /api/colleges/:collegeId ----------------- *)
DeleteCollege(u, collegeId) ==
  /\ UNCHANGED <<env, users, loggedIn, chatSessions, chatMessages, advisors,
                 sharedChatSessions, collegeRecommendations, nextId>>
  /\ IF u = Undefined
     THEN /\ UNCHANGED colleges
          /\ Reply("deleteCollege", 401)
     ELSE IF collegeId \notin DOMAIN colleges
     THEN /\ UNCHANGED colleges
          /\ Reply("deleteCollege", 500)
     ELSE /\ colleges' = deleteCollege(collegeId)
          /\ Reply("deleteCollege", 200)

(* -------------- DELETE /api/recommendations/:recommendationId --------- *)
DeleteRecommendation(u, recommendationId) ==
  /\ UNCHANGED <<env, users, loggedIn, colleges, chatSessions, chatMessages,
                 advisors, sharedChatSessions, nextId>>
  /\ IF u = Undefined
     THEN /\ UNCHANGED collegeRecommendations
          /\ Reply("deleteRecommendation", 401)
     ELSE IF recommendationId \notin DOMAIN collegeRecommendations
     THEN /\ UNCHANGED collegeRecommendations
          /\ Reply("deleteRecommendation", 500)
     ELSE /\ collegeRecommendations' = deleteCollegeRecommendation(recommendationId)
          /\ Reply("deleteRecommendation", 200)

(* ----------- POST /api/recommendations/:recommendationId/convert ------ *)
\* db: what the database does with the two statements of the request.
\* "insertFails": the INSERT of createCollege throws, the handler passes the
\* error on (500).  "deleteFails": the DELETE throws inside
\* PostgresStorage.deleteCollegeRecommendation, whose catch returns false;
\* the handler does not look at the result.  MemStorage's Map cannot fail.
DbOutcomes == {"ok", "insertFails", "deleteFails"}

ConvertRecommendation(u, recommendationId, status, db) ==
  /\ nextId.college <= MaxColleges
  /\ db = "ok" \/ env.storage = "pg"
  /\ UNCHANGED <<env, users, loggedIn, chatSessions, chatMessages, advisors,
                 sharedChatSessions>>
  /\ IF u = Undefined
     THEN /\ UNCHANGED <<colleges, collegeRecommendations, nextId>>
          /\ Reply("convert", 401)
     ELSE IF status \notin CollegeStatus
     THEN /\ UNCHANGED <<colleges, collegeRecommendations, nextId>>
          /\ Reply("convert", 400)
     ELSE IF \/ recommendationId \notin DOMAIN collegeRecommendations
             \/ collegeRecommendations[recommendationId].userId # u
     THEN /\ UNCHANGED <<colleges, collegeRecommendations, nextId>>
          /\ Reply("convert", 404)
     ELSE IF db = "insertFails"
     THEN /\ UNCHANGED <<colleges, collegeRecommendations, nextId>>
          /\ Reply("convert", 500)
     ELSE /\ colleges' = createCollege(
                 [userId |-> u,
                  name |-> collegeRecommendations[recommendationId].name,
                  status |-> status, positionGiven |-> FALSE, position |-> 0])
          /\ colleges'[nextId.college].position <= MaxPosition
          /\ nextId' = [nextId EXCEPT !.college = @ + 1]
          /\ collegeRecommendations' =
                IF db = "deleteFails" THEN collegeRecommendations
                ELSE deleteCollegeRecommendation(recommendationId)
          /\ Reply("convert", 200)

\* the same handler await by await, with a database that does not fail.
\* ConvertStart: the checks and `await getCollegeRecommendations`, the
\* recommendation found in the result.
ConvertStart(p, u, recommendationId, status) ==
  /\ converting[p].pc = "idle"
  /\ UNCHANGED <<env, tables, registering, sending, now>>
  /\ IF u = Undefined
     THEN Reply("convert", 401)
     ELSE IF status \notin CollegeStatus
     THEN Reply("convert", 400)
     ELSE IF \/ recommendationId \notin DOMAIN collegeRecommendations
             \/ collegeRecommendations[recommendationId].userId # u
     THEN Reply("convert", 404)
     ELSE /\ converting' = [converting EXCEPT ![p] =
                 [pc |-> "found", user |-> u, recommendationId |-> recommendationId,
                  name |-> collegeRecommendations[recommendationId].name,
                  status |-> status]]
          /\ UNCHANGED lastReq

\* const college = await dbStorage.createCollege(collegeData)
ConvertCreate(p) ==
  /\ converting[p].pc = "found"
  /\ nextId.college <= MaxColleges
  /\ UNCHANGED <<env, users, loggedIn, chatSessions, chatMessages, advisors,
                 sharedChatSessions, collegeRecommendations, registering,
                 sending, now, lastReq>>
  /\ colleges' = createCollege(
        [userId |-> converting[p].user, name |-> converting[p].name,
         status |-> converting[p].status, positionGiven |-> FALSE, position |-> 0])
  /\ nextId' = [nextId EXCEPT !.college = @ + 1]
  /\ converting' = [converting EXCEPT ![p].pc = "created"]

\* await dbStorage.deleteCollegeRecommendation(...); res.json(college)
ConvertDelete(p) ==
  /\ converting[p].pc = "created"
  /\ UNCHANGED <<env, users, loggedIn, colleges, chatSessions, chatMessages,
                 advisors, sharedChatSessions, nextId, registering, sending, now>>
  /\ collegeRecommendations' =
        IF converting[p].recommendationId \in DOMAIN collegeRecommendations
        THEN deleteCollegeRecommendation(converting[p].recommendationId)
        ELSE collegeRecommendations
  /\ converting' = [converting EXCEPT ![p] = ConvertIdle]
  /\ lastReq' = [op |-> "convert", status |-> 200]

(* ----------------- POST /api/recommendations/generate ----------------- *)
\* the for loop over the array the AI call returned: one row per element,
\* in order, whatever the array's length and names
SaveRecommendations(userId, names) ==
  LET first == nextId.recommendation
  IN collegeRecommendations @@
       [id \in first..(first + Len(names) - 1) |->
          [id |-> id,
           userId |-> userId,
           name |-> names[id - first + 1],
           description |-> "generated",
           recommendedBy |-> "null"]]

\* ai: generateCollegeRecommendationsWithGemini returns the parsed JSON
\* array or throws; names: the names of the array's elements
GenerateRecommendations(u, ai, names) ==
  /\ nextId.recommendation + Len(names) - 1 <= GenMaxRecommendations
  /\ UNCHANGED <<env, users, loggedIn, colleges, chatSessions, chatMessages,
                 advisors, sharedChatSessions>>
  /\ IF u = Undefined
     THEN /\ UNCHANGED <<collegeRecommendations, nextId>>
          /\ Reply("generateRecommendations", 401)
     ELSE IF ~env.apiKey
     THEN /\ UNCHANGED <<collegeRecommendations, nextId>>
          /\ Reply("generateRecommendations", 500)
     ELSE IF u \notin DOMAIN users
     THEN /\ UNCHANGED <<collegeRecommendations, nextId>>
          /\ Reply("generateRecommendations", 404)
     ELSE IF ai = "fail"
     THEN /\ UNCHANGED <<collegeRecommendations, nextId>>
          /\ Reply("generateRecommendations", 500)
     ELSE /\ collegeRecommendations' = SaveRecommendations(u, names)
          /\ nextId' = [nextId EXCEPT !.recommendation = @ + Len(names)]
          /\ Reply("generateRecommendations", 200)

(* ------------------------ POST /api/generate-profile ------------------ *)
\* const user = req.user || await dbStorage.getUserByUsername(username)
GenerateProfile(u, username, ai) ==
  /\ UNCHANGED <<env, loggedIn, colleges, chatSessions, chatMessages, advisors,
                 sharedChatSessions, collegeRecommendations, nextId>>
  /\ IF ~env.apiKey
     THEN /\ UNCHANGED users
          /\ Reply("generateProfile", 500)
     ELSE IF ai = "fail"
     THEN /\ UNCHANGED users
          /\ Reply("generateProfile", 500)
     ELSE LET user == IF u # Undefined THEN u ELSE getUserByUsername(username)
          IN IF user = Undefined
             THEN /\ UNCHANGED users
                  /\ Reply("generateProfile", 404)
             ELSE /\ users' = updateUserProfileDescription(user, "This student is")
                  /\ Reply("generateProfile", 200)

(* ------------ server/auth.ts: POST /api/user/profile-description ------ *)
UpdateProfileDescription(u, profileDescription) ==
  /\ UNCHANGED <<env, loggedIn, colleges, chatSessions, chatMessages, advisors,
                 sharedChatSessions, collegeRecommendations, nextId>>
  /\ IF u = Undefined
     THEN /\ UNCHANGED users
          /\ Reply("updateProfileDescription", 401)
     ELSE IF profileDescription = ""
     THEN /\ UNCHANGED users
          /\ Reply("updateProfileDescription", 400)
     ELSE /\ users' = updateUserProfileDescription(u, profileDescription)
          /\ Reply("updateProfileDescription", 200)

(* ====================== inputs of the requests ======================== *)
ShareTokens == {<<"uuid", n>> : n \in 1..MaxAdvisors}
AdvisorIds == 1..MaxAdvisors
SessionIds == 1..MaxChatSessions
SessionIdLists == SeqsUpTo(SessionIds, MaxShareList)

SingleSessionLists == {<<sid>> : sid \in SessionIds}
WithKey == env.apiKey
CollegeIds == 1..MaxColleges
RecommendationIds == 1..MaxRecommendations
Positions == 0..MaxPosition

(* ------------- sharing and unsharing of chat sessions ------------------ *)
\* requests of logged-in users; no handler here reads GEMINI_API_KEY
InitJunction == Init /\ WithKey

NextJunction ==
  \/ \E username \in Usernames, password \in Passwords : Register(username, password)
  \/ \E u \in loggedIn, name \in AdvisorNames, type \in AdvisorTypes :
        CreateAdvisor(u, name, type)
  \/ \E u \in loggedIn : CreateChatSession(u, <<>>)
  \/ \E u \in loggedIn, a \in AdvisorIds, ids \in SessionIdLists : ShareChats(u, a, ids)
  \/ \E u \in loggedIn, a \in AdvisorIds, ids \in SingleSessionLists :
        UnshareChats(u, a, ids)

SpecJunction == InitJunction /\ [][NextJunction]_vars

C7_NoDuplicateShare ==
  \A a \in AdvisorIds :
     LET ids == getSharedChatSessions(a)
     IN \A i, j \in DOMAIN ids : i # j => ids[i] # ids[j]


(* ---------------- advisors, their links and their status --------------- *)
LinkMaxSessions == 1
LinkMaxRecommendations == 1

InitLink == Init /\ WithKey

NextLink ==
  \/ \E username \in Usernames, password \in Passwords : Register(username, password)
  \/ \E u \in loggedIn, name \in AdvisorNames, type \in AdvisorTypes :
        CreateAdvisor(u, name, type)
  \/ \E u \in loggedIn, a \in AdvisorIds, isActive \in BOOLEAN :
        UpdateAdvisorStatus(u, a, isActive)
  \/ \E u \in loggedIn, a \in AdvisorIds : DeleteAdvisor(u, a)
  \/ \E u \in loggedIn : nextId.chatSession <= LinkMaxSessions /\ CreateChatSession(u, <<>>)
  \/ \E u \in loggedIn, a \in AdvisorIds, ids \in SingleSessionLists : ShareChats(u, a, ids)
  \/ \E u \in loggedIn, a \in AdvisorIds, ids \in SingleSessionLists :
        UnshareChats(u, a, ids)
  \/ \E t \in ShareTokens : SharedProfile(t)
  \/ \E t \in ShareTokens, sid \in SessionIds : SharedMessages(t, sid)
  \/ \E t \in ShareTokens, name \in CollegeNames :
        /\ nextId.recommendation <= LinkMaxRecommendations
        /\ AddAdvisorRecommendation(t, name, "ok")

SpecLink == InitLink /\ [][NextLink]_vars

\* the status POST /api/shared/:shareToken/recommendations answers with
AdvisorRecommendationStatus(shareToken) ==
  LET advisor == getAdvisorByShareToken(shareToken)
  IN IF advisor = Undefined THEN 404
     ELSE IF advisors[advisor].userId \notin DOMAIN users THEN 404
     ELSE 201

\* C1: while an advisor is deactivated, resolveByToken of its share token
\* returns null, so the shared profile view and the advisor recommendation
\* write answer not-found and the shared-messages read is empty, whichever
\* storage is in use.
C1_DeactivatedLinkNotFound ==
  \A a \in DOMAIN advisors :
     ~advisors[a].isActive =>
        /\ getAdvisorByShareToken(advisors[a].shareToken) = Undefined
        /\ SharedProfileStatus(advisors[a].shareToken) = 404
        /\ AdvisorRecommendationStatus(advisors[a].shareToken) = 404
        /\ \A sid \in SessionIds :
              SharedMessagesBody(advisors[a].shareToken, sid) = <<>>

\* C8: a share token never changes and no two advisors have the same one;
\* setActive leaves the token and the advisor's shared session ids as they
\* were, and the token of an active advisor resolves to that advisor.
C8_TokenStableAndUnique ==
  [][/\ \A a \in DOMAIN advisors \cap DOMAIN advisors' :
           advisors'[a].shareToken = advisors[a].shareToken
     /\ \A a, b \in DOMAIN advisors' :
           a # b => advisors'[a].shareToken # advisors'[b].shareToken
     /\ lastReq'.op = "setActive" => sharedChatSessions' = sharedChatSessions
     /\ \A a \in DOMAIN advisors' :
           advisors'[a].isActive =>
              \E t \in ShareTokens :
                 t = advisors'[a].shareToken /\ getAdvisorByShareToken(t)' = a]_vars

\* an advisor with a shared session was switched by setActive and is active,
\* beside a second advisor that is switched off
C8_Witness ==
  /\ lastReq.op = "setActive"
  /\ lastReq.status = 200
  /\ \E a, b \in DOMAIN advisors :
        /\ advisors[a].isActive
        /\ getSharedChatSessions(a) # <<>>
        /\ ~advisors[b].isActive


(* ------------------ what an advisor reads through a link --------------- *)
ReadMaxAdvisors == 1

InitSharedRead == Init /\ WithKey

NextSharedRead ==
  \/ \E username \in Usernames, password \in Passwords : Register(username, password)
  \/ \E u \in loggedIn, name \in AdvisorNames, type \in AdvisorTypes :
        nextId.advisor <= ReadMaxAdvisors /\ CreateAdvisor(u, name, type)
  \/ \E u \in loggedIn, a \in AdvisorIds, isActive \in BOOLEAN :
        UpdateAdvisorStatus(u, a, isActive)
  \/ \E u \in loggedIn : CreateChatSession(u, <<>>)
  \/ \E u \in loggedIn, sid \in SessionIds, content \in Contents :
        SendMessage(u, sid, content, "ok", "NULL")
  \/ \E u \in loggedIn, a \in AdvisorIds, ids \in SingleSessionLists : ShareChats(u, a, ids)
  \/ \E u \in loggedIn, a \in AdvisorIds, ids \in SingleSessionLists :
        UnshareChats(u, a, ids)
  \/ \E t \in ShareTokens : SharedProfile(t)
  \/ \E t \in ShareTokens, sid \in SessionIds : SharedMessages(t, sid)

SpecSharedRead == InitSharedRead /\ [][NextSharedRead]_vars

\* C4: the shared profile view of an active advisor's token carries, of the
\* owner's account, the username and the profile description and nothing
\* else, and lists only chat sessions that are in the advisor's shared set.
C4_SharedViewIsMinimal ==
  \A a \in DOMAIN advisors :
     advisors[a].isActive =>
        LET body == SharedProfileBody(advisors[a].shareToken)
            owner == users[advisors[a].userId]
        IN /\ SharedProfileStatus(advisors[a].shareToken) = 200
           /\ DOMAIN body.user = {"username", "profileDescription"}
           /\ body.user.username = owner.username
           /\ body.user.profileDescription = owner.profileDescription
           /\ \A i \in DOMAIN body.sharedChatSessions :
                 body.sharedChatSessions[i].id \in Range(getSharedChatSessions(a))

\* an active advisor whose owner has one session shared and one not
C4_Witness ==
  /\ lastReq.op = "sharedProfile"
  /\ lastReq.status = 200
  /\ \E a \in DOMAIN advisors, s1, s2 \in DOMAIN chatSessions :
        /\ advisors[a].isActive
        /\ chatSessions[s1].userId = advisors[a].userId
        /\ chatSessions[s2].userId = advisors[a].userId
        /\ s1 \in Range(getSharedChatSessions(a))
        /\ s2 \notin Range(getSharedChatSessions(a))

\* C5: the shared-messages read is non-empty only if the token is that of an
\* active advisor, the session belongs to the advisor's owner and the pair
\* is in the shared set.
C5_MessagesOnlyForActiveSharedPair ==
  \A t \in ShareTokens, sid \in SessionIds :
     SharedMessagesBody(t, sid) # <<>> =>
        \E a \in DOMAIN advisors :
           /\ advisors[a].shareToken = t
           /\ advisors[a].isActive
           /\ sid \in DOMAIN chatSessions
           /\ chatSessions[sid].userId = advisors[a].userId
           /\ sid \in Range(getSharedChatSessions(a))


(* --------------------------- the college list -------------------------- *)
InitColleges == Init /\ WithKey

NextColleges ==
  \/ \E username \in Usernames, password \in Passwords : Register(username, password)
  \/ \E u \in loggedIn, name \in CollegeNames, status \in CollegeStatus,
        positionGiven \in BOOLEAN, position \in Positions :
        CreateCollege(u, name, status, positionGiven, position)
  \/ \E u \in loggedIn, c \in CollegeIds, status \in CollegeStatus :
        UpdateCollegeStatus(u, c, status)

SpecColleges == InitColleges /\ [][NextColleges]_vars

\* C9: after any sequence of add (with or without a position) and
\* updateStatus, no two colleges of one user in one status have the same
\* position.
C9_PositionsUnique ==
  \A c, d \in DOMAIN colleges :
     (/\ c # d
      /\ colleges[c].userId = colleges[d].userId
      /\ colleges[c].status = colleges[d].status)
        => colleges[c].position # colleges[d].position

(* ------------------- changing rows of another account ------------------ *)
OwnMaxColleges == 1
OwnMaxAdvisors == 1
OwnMaxRecommendations == 1

InitOwnership == Init /\ WithKey

NextOwnership ==
  \/ \E username \in Usernames, password \in Passwords : Register(username, password)
  \/ \E u \in loggedIn, name \in CollegeNames, status \in CollegeStatus :
        nextId.college <= OwnMaxColleges /\ CreateCollege(u, name, status, FALSE, 0)
  \/ \E u \in loggedIn, c \in CollegeIds, status \in CollegeStatus :
        UpdateCollegeStatus(u, c, status)
  \/ \E u \in loggedIn, c \in CollegeIds, position \in Positions :
        UpdateCollegePosition(u, c, position)
  \/ \E u \in loggedIn, c \in CollegeIds : DeleteCollege(u, c)
  \/ \E u \in loggedIn, name \in AdvisorNames, type \in AdvisorTypes :
        nextId.advisor <= OwnMaxAdvisors /\ CreateAdvisor(u, name, type)
  \/ \E u \in loggedIn, a \in AdvisorIds, isActive \in BOOLEAN :
        UpdateAdvisorStatus(u, a, isActive)
  \/ \E u \in loggedIn, a \in AdvisorIds : DeleteAdvisor(u, a)
  \/ \E t \in ShareTokens, name \in CollegeNames :
        /\ nextId.recommendation <= OwnMaxRecommendations
        /\ AddAdvisorRecommendation(t, name, "ok")
  \/ \E u \in loggedIn, r \in RecommendationIds : DeleteRecommendation(u, r)

SpecOwnership == InitOwnership /\ [][NextOwnership]_vars

\* C2: updateStatus, updatePosition and delete on a college, setActive and
\* delete on an advisor, and delete on a recommendation, asked by a session
\* user who is not the row's userId, answer forbidden (403) and leave the
\* table as it was.
C2_OnlyOwnerMutates ==
  [][\A u \in loggedIn :
       /\ \A c \in DOMAIN colleges :
             colleges[c].userId # u =>
               /\ \A status \in CollegeStatus :
                     UpdateCollegeStatus(u, c, status) =>
                        lastReq'.status = 403 /\ colleges' = colleges
               /\ \A position \in Positions :
                     UpdateCollegePosition(u, c, position) =>
                        lastReq'.status = 403 /\ colleges' = colleges
               /\ DeleteCollege(u, c) =>
                     lastReq'.status = 403 /\ colleges' = colleges
       /\ \A a \in DOMAIN advisors :
             advisors[a].userId # u =>
               /\ \A isActive \in BOOLEAN :
                     UpdateAdvisorStatus(u, a, isActive) =>
                        lastReq'.status = 403 /\ advisors' = advisors
               /\ DeleteAdvisor(u, a) =>
                     lastReq'.status = 403 /\ advisors' = advisors
       /\ \A r \in DOMAIN collegeRecommendations :
             collegeRecommendations[r].userId # u =>
                (DeleteRecommendation(u, r) =>
                   /\ lastReq'.status = 403
                   /\ collegeRecommendations' = collegeRecommendations)]_vars

(* -------------- converting a recommendation into a college ------------- *)
ConvertMaxAdvisors == 1

InitConvert == Init /\ WithKey

NextConvert ==
  \/ \E username \in Usernames, password \in Passwords : Register(username, password)
  \/ \E u \in loggedIn, name \in AdvisorNames, type \in AdvisorTypes :
        nextId.advisor <= ConvertMaxAdvisors /\ CreateAdvisor(u, name, type)
  \/ \E t \in ShareTokens, name \in CollegeNames : AddAdvisorRecommendation(t, name, "ok")
  \/ \E u \in loggedIn, r \in RecommendationIds, status \in CollegeStatus,
        db \in DbOutcomes : ConvertRecommendation(u, r, status, db)
  \/ \E u \in loggedIn, r \in RecommendationIds : DeleteRecommendation(u, r)

SpecConvert == InitConvert /\ [][NextConvert]_vars

\* C10: a convert request, whether it succeeds or fails in either of its two
\* steps, ends either with a college of the recommendation's name created
\* and the recommendation gone, or with no college created and the
\* recommendation still there.
C10_ConvertAtomic ==
  [][lastReq'.op = "convert" =>
       \/ colleges' = colleges /\ collegeRecommendations' = collegeRecommendations
       \/ \E r \in DOMAIN collegeRecommendations :
             /\ r \notin DOMAIN collegeRecommendations'
             /\ \E c \in DOMAIN colleges' \ DOMAIN colleges :
                   colleges'[c].name = collegeRecommendations[r].name]_vars


(* ------------------- requests without a session user ------------------- *)
AuthMaxColleges == 1
AuthMaxAdvisors == 1
AuthMaxSessions == 1
AuthMaxRecommendations == 1
AuthUsernames == {"alice"}
Descriptions == {"", "I like physics"}
AuthCreateStatus == {"researching"}
AuthMoveStatus == {"applying"}
AuthPositions == {1}

InitAuth == Init /\ WithKey

NextAuth ==
  \/ \E username \in AuthUsernames, password \in Passwords : Register(username, password)
  \/ \E u \in ReqUsers, username \in AuthUsernames : GenerateProfile(u, username, "ok")
  \/ \E u \in ReqUsers, d \in Descriptions : UpdateProfileDescription(u, d)
  \/ \E u \in ReqUsers, name \in CollegeNames, status \in AuthCreateStatus :
        nextId.college <= AuthMaxColleges /\ CreateCollege(u, name, status, FALSE, 0)
  \/ \E u \in ReqUsers, c \in CollegeIds, status \in AuthMoveStatus :
        UpdateCollegeStatus(u, c, status)
  \/ \E u \in ReqUsers, c \in CollegeIds, position \in AuthPositions :
        UpdateCollegePosition(u, c, position)
  \/ \E u \in ReqUsers, c \in CollegeIds : DeleteCollege(u, c)
  \/ \E u \in ReqUsers, name \in AdvisorNames, type \in AdvisorTypes :
        nextId.advisor <= AuthMaxAdvisors /\ CreateAdvisor(u, name, type)
  \/ \E u \in ReqUsers, a \in AdvisorIds, isActive \in BOOLEAN :
        UpdateAdvisorStatus(u, a, isActive)
  \/ \E u \in ReqUsers, a \in AdvisorIds : DeleteAdvisor(u, a)
  \/ \E u \in ReqUsers, a \in AdvisorIds, ids \in SingleSessionLists : ShareChats(u, a, ids)
  \/ \E u \in ReqUsers, a \in AdvisorIds, ids \in SingleSessionLists :
        UnshareChats(u, a, ids)
  \/ \E u \in ReqUsers :
        nextId.chatSession <= AuthMaxSessions /\ CreateChatSession(u, <<>>)
  \/ \E u \in ReqUsers, sid \in SessionIds : DeleteChatSession(u, sid)
  \/ \E u \in ReqUsers, sid \in SessionIds, content \in Contents :
        SendMessage(u, sid, content, "ok", "NULL")
  \/ \E t \in ShareTokens, name \in CollegeNames :
        /\ nextId.recommendation <= AuthMaxRecommendations
        /\ AddAdvisorRecommendation(t, name, "ok")
  \/ \E u \in ReqUsers, r \in RecommendationIds : DeleteRecommendation(u, r)
  \/ \E u \in ReqUsers, r \in RecommendationIds, status \in AuthCreateStatus :
        ConvertRecommendation(u, r, status, "ok")

SpecAuth == InitAuth /\ [][NextAuth]_vars

\* C3: every operation on user-owned data, the write of a profile
\* description by POST /api/generate-profile included, answers a request
\* without a session user with unauthorized (401) and changes no stored
\* state.
C3_NoSessionNoAccess ==
  [][(\/ \E username \in AuthUsernames : GenerateProfile(Undefined, username, "ok")
      \/ \E d \in Descriptions : UpdateProfileDescription(Undefined, d)
      \/ \E name \in CollegeNames, status \in AuthCreateStatus :
            CreateCollege(Undefined, name, status, FALSE, 0)
      \/ \E c \in CollegeIds, status \in AuthMoveStatus :
            UpdateCollegeStatus(Undefined, c, status)
      \/ \E c \in CollegeIds, position \in AuthPositions :
            UpdateCollegePosition(Undefined, c, position)
      \/ \E c \in CollegeIds : DeleteCollege(Undefined, c)
      \/ \E name \in AdvisorNames, type \in AdvisorTypes :
            CreateAdvisor(Undefined, name, type)
      \/ \E a \in AdvisorIds, isActive \in BOOLEAN :
            UpdateAdvisorStatus(Undefined, a, isActive)
      \/ \E a \in AdvisorIds : DeleteAdvisor(Undefined, a)
      \/ \E a \in AdvisorIds, ids \in SingleSessionLists : ShareChats(Undefined, a, ids)
      \/ \E a \in AdvisorIds, ids \in SingleSessionLists :
            UnshareChats(Undefined, a, ids)
      \/ CreateChatSession(Undefined, <<>>)
      \/ \E sid \in SessionIds : DeleteChatSession(Undefined, sid)
      \/ \E sid \in SessionIds, content \in Contents :
            SendMessage(Undefined, sid, content, "ok", "NULL")
      \/ \E r \in RecommendationIds : DeleteRecommendation(Undefined, r)
      \/ \E r \in RecommendationIds, status \in AuthCreateStatus :
            ConvertRecommendation(Undefined, r, status, "ok"))
     => lastReq'.status = 401 /\ UNCHANGED tables]_vars


(* ------------------------ chat sessions and messages ------------------- *)
AiOutcomes == {"ok", "fail"}

InitChat == Init

NextChat ==
  \/ \E username \in Usernames, password \in Passwords : Register(username, password)
  \/ \E u \in loggedIn : CreateChatSession(u, <<>>)
  \/ \E u \in loggedIn, sid \in SessionIds, content \in Contents, ai \in AiOutcomes,
        profile \in ProfileOutcomes : SendMessage(u, sid, content, ai, profile)
  \/ \E u \in loggedIn, sid \in SessionIds : DeleteChatSession(u, sid)

SpecChat == InitChat /\ [][NextChat]_vars

\* C11: when deleteSession answers with success, the session is gone and
\* listing the messages of its id yields none; and no stored message is
\* left that belongs to a session that does not exist.
C11_DeleteRemovesMessages ==
  [][(lastReq'.op = "deleteSession" /\ lastReq'.status = 200) =>
       /\ \E sid \in DOMAIN chatSessions :
             /\ getChatSession(sid)' = Undefined
             /\ getChatMessages(sid)' = <<>>
       /\ \A i \in DOMAIN chatMessages' :
             chatMessages'[i].sessionId \in DOMAIN chatSessions']_vars

\* a delete has succeeded after messages had been stored, and none is left
C11_Witness ==
  /\ lastReq.op = "deleteSession"
  /\ lastReq.status = 200
  /\ nextId.chatMessage > 1
  /\ chatMessages = <<>>


\* C12: when a sendMessage request fails after it has stored the user's
\* message (the AI key is missing, or the AI call throws), the user message
\* stays stored and the answer carries that stored message together with an
\* error indicator.
C12_UserMessageKeptAndReturned ==
  [][\A u \in loggedIn, sid \in SessionIds, content \in Contents,
        ai \in AiOutcomes, profile \in ProfileOutcomes :
       (/\ SendMessage(u, sid, content, ai, profile)
        /\ sid \in DOMAIN chatSessions
        /\ chatSessions[sid].userId = u
        /\ (~env.apiKey \/ ai = "fail"))
         => /\ \E i \in DOMAIN chatMessages' :
                  /\ chatMessages'[i].id = nextId.chatMessage
                  /\ chatMessages'[i].sessionId = sid
                  /\ chatMessages'[i].sender = "user"
                  /\ chatMessages'[i].content = content
            /\ SendMessageBody(ai).userMessage = nextId.chatMessage
            /\ SendMessageBody(ai).error]_vars


(* --------------------- registering and logging in ---------------------- *)
InFlight == 1..MaxInFlight
LoginPasswords == Passwords \cup {"not the password"}

InitRegister == Init /\ WithKey

NextRegister ==
  \/ \E username \in Usernames, password \in Passwords : Register(username, password)
  \/ \E p \in InFlight, username \in Usernames, password \in Passwords :
        RegisterCheck(p, username, password)
  \/ \E p \in InFlight : RegisterCreate(p)
  \/ \E username \in Usernames, password \in LoginPasswords : Login(username, password)
  \/ \E u \in loggedIn : Logout(u)

SpecRegister == InitRegister /\ [][NextRegister]_vars

\* C13: after any interleaving of register requests no two stored users
\* have the same username, and a register request whose username exists by
\* the time it would create the user fails with the conflict answer (400)
\* without creating a user or starting a session.
C13_UsernamesUnique ==
  [][/\ \A a, b \in DOMAIN users' :
           a # b => users'[a].username # users'[b].username
     /\ \A p \in InFlight :
           (/\ RegisterCreate(p)
            /\ getUserByUsername(registering[p].username) # Undefined)
             => /\ lastReq'.status = 400
                /\ users' = users
                /\ loggedIn' = loggedIn]_vars


\* the keys of onboardingSchema
OnboardingFields ==
  {"programs", "academicEnv", "location", "culture", "academicStats",
   "financialAid", "other"}

\* C14: a user registered without an onboarding payload has all seven
\* onboarding fields, each equal to the sentinel "User skipped this
\* question.".
C14_SevenSentinels ==
  \A id \in DOMAIN users :
     /\ DOMAIN users[id].onboarding = OnboardingFields
     /\ \A f \in OnboardingFields : users[id].onboarding[f] = SkippedAnswer


\* C15: a login that fails because the username is unknown and one that
\* fails because the password does not match get the same response, which
\* carries no user, and neither starts an authenticated session.
C15_LoginFailuresAlike ==
  [][\A n1, n2 \in Usernames, p1, p2 \in LoginPasswords :
       LET known(n) == \E id \in DOMAIN users : users[id].username = n
           matches(n, p) == \E id \in DOMAIN users :
                               /\ users[id].username = n
                               /\ users[id].password = hashPassword(p)
       IN (~known(n1) /\ known(n2) /\ ~matches(n2, p2))
            => /\ LoginResponse(n1, p1) = LoginResponse(n2, p2)
               /\ LoginResponse(n1, p1).user = Undefined
               /\ Login(n1, p1) => loggedIn' = loggedIn
               /\ Login(n2, p2) => loggedIn' = loggedIn]_vars

\* a login was refused while one username is registered and the other is
\* not, and nobody holds a session
C15_Witness ==
  /\ lastReq.op = "login"
  /\ lastReq.status = 401
  /\ loggedIn = {}
  /\ \E n1, n2 \in Usernames :
        /\ getUserByUsername(n1) = Undefined
        /\ getUserByUsername(n2) # Undefined


(* ------------------ an advisor adds a recommendation ------------------- *)
InitAdvisorRec == Init

NextAdvisorRec ==
  \/ \E username \in Usernames, password \in Passwords : Register(username, password)
  \/ \E u \in loggedIn, name \in AdvisorNames, type \in AdvisorTypes :
        CreateAdvisor(u, name, type)
  \/ \E u \in loggedIn, a \in AdvisorIds, isActive \in BOOLEAN :
        UpdateAdvisorStatus(u, a, isActive)
  \/ \E t \in ShareTokens, name \in CollegeNames, ai \in AiOutcomes :
        AddAdvisorRecommendation(t, name, ai)

SpecAdvisorRec == InitAdvisorRec /\ [][NextAdvisorRec]_vars

\* C16: addRecommendationAsAdvisor with the token of an active advisor
\* stores exactly one recommendation, owned by the advisor's user and
\* recommended by the advisor's name, whether or not the AI call succeeds,
\* and changes nothing else; with an unknown or inactive token it answers
\* not-found (404) and stores nothing.
C16_AdvisorRecommendation ==
  [][\A t \in ShareTokens, name \in CollegeNames, ai \in AiOutcomes :
       AddAdvisorRecommendation(t, name, ai) =>
         LET active == {a \in DOMAIN advisors :
                          advisors[a].shareToken = t /\ advisors[a].isActive}
             new == nextId.recommendation
         IN IF active # {}
            THEN /\ lastReq'.status = 201
                 /\ DOMAIN collegeRecommendations' =
                       DOMAIN collegeRecommendations \cup {new}
                 /\ \A r \in DOMAIN collegeRecommendations :
                       collegeRecommendations'[r] = collegeRecommendations[r]
                 /\ \E a \in active :
                       /\ collegeRecommendations'[new].userId = advisors[a].userId
                       /\ collegeRecommendations'[new].recommendedBy = advisors[a].name
                 /\ UNCHANGED <<users, loggedIn, colleges, chatSessions, chatMessages,
                                advisors, sharedChatSessions>>
            ELSE /\ lastReq'.status = 404
                 /\ collegeRecommendations' = collegeRecommendations]_vars


(* -------------------- generating recommendations ----------------------- *)
GenMaxColleges == 1
\* the names the AI's answer may carry, and the arrays it may return
AiNames == CollegeNames \cup {"Yale"}
AiLists == SeqsUpTo(AiNames, MaxAiList)

InitGenerate == Init

NextGenerate ==
  \/ \E username \in Usernames, password \in Passwords : Register(username, password)
  \/ \E u \in loggedIn, name \in CollegeNames :
        nextId.college <= GenMaxColleges /\ CreateCollege(u, name, "researching", FALSE, 0)
  \/ \E u \in loggedIn, ai \in AiOutcomes, names \in AiLists :
        GenerateRecommendations(u, ai, names)

SpecGenerate == InitGenerate /\ [][NextGenerate]_vars

\* C17: a generate request that succeeds stores exactly 3 new
\* recommendations owned by the user, none of them named like a college on
\* the user's list or like a recommendation the user already had.
C17_ThreeNewRecommendations ==
  [][\A u \in loggedIn, names \in AiLists :
       (GenerateRecommendations(u, "ok", names) /\ lastReq'.status = 200) =>
         LET new == DOMAIN collegeRecommendations' \ DOMAIN collegeRecommendations
             taken == {colleges[c].name : c \in
                          {d \in DOMAIN colleges : colleges[d].userId = u}}
                      \cup {collegeRecommendations[r].name : r \in
                          {q \in DOMAIN collegeRecommendations :
                              collegeRecommendations[q].userId = u}}
         IN /\ Cardinality(new) = 3
            /\ \A r \in new :
                  /\ collegeRecommendations'[r].userId = u
                  /\ collegeRecommendations'[r].name \notin taken]_vars


(* ----------------- adding, moving and ordering colleges ---------------- *)
MoveMaxColleges == 2
\* req.body.status of POST /api/colleges, "undefined" when the body has none
StatusInputs == CollegeStatus \cup {"undefined"}
\* req.body.position of POST /api/colleges, when the body has one
MovePositions == {-2, 1}
\* req.body.position of PATCH /api/colleges/:collegeId/position
PositionBodies ==
  {[type |-> "number", whole |-> w, half |-> h] : w \in {-1, 1}, h \in BOOLEAN}
    \cup {[type |-> "string", whole |-> 0, half |-> FALSE]}

InitMove == Init /\ WithKey

NextMove ==
  \/ \E username \in Usernames, password \in Passwords : Register(username, password)
  \/ \E u \in loggedIn, name \in CollegeNames, status \in StatusInputs,
        positionGiven \in BOOLEAN, position \in MovePositions :
        /\ nextId.college <= MoveMaxColleges
        /\ CreateCollege(u, name, status, positionGiven, position)
  \/ \E u \in loggedIn, c \in CollegeIds, status \in CollegeStatus :
        UpdateCollegeStatus(u, c, status)
  \/ \E u \in loggedIn, c \in CollegeIds, body \in PositionBodies :
        PatchCollegePosition(u, c, body)

SpecMove == InitMove /\ [][NextMove]_vars

\* C18: updateStatus(collegeId, newStatus) sets the college's status to
\* newStatus and its position to 1 + the greatest position among the same
\* user's colleges in newStatus (1 when there are none), and leaves every
\* other college as it was.
C18_MoveAppendsToColumn ==
  [][\A u \in loggedIn, c \in DOMAIN colleges, status \in CollegeStatus :
       UpdateCollegeStatus(u, c, status) =>
         LET column == InStatus(colleges[c].userId, status)
             expected == IF column = {} THEN 1
                         ELSE colleges[CHOOSE d \in column : \A e \in column :
                                   Doubled(e) <= Doubled(d)].position + 1
         IN /\ lastReq'.status = 200
            /\ colleges'[c].status = status
            /\ colleges'[c].position = expected
            /\ DOMAIN colleges' = DOMAIN colleges
            /\ \A d \in DOMAIN colleges \ {c} : colleges'[d] = colleges[d]]_vars

\* C19: add without status stores the college as researching; add without
\* position stores it at 1 + the greatest position among the user's
\* colleges of the same status, or at 1 when there are none; for either
\* storage.
C19_AddDefaults ==
  [][\A u \in loggedIn, name \in CollegeNames, status \in StatusInputs :
       LET wanted == IF status = "undefined" THEN "researching" ELSE status
           new == nextId.college
           column == InStatus(u, wanted)
           expected == IF column = {} THEN 1
                       ELSE colleges[CHOOSE d \in column : \A e \in column :
                                 Doubled(e) <= Doubled(d)].position + 1
       IN /\ CreateCollege(u, name, status, FALSE, 0) =>
               /\ lastReq'.status = 201
               /\ colleges'[new].status = wanted
               /\ colleges'[new].position = expected
          /\ \A position \in MovePositions :
               CreateCollege(u, name, status, TRUE, position) =>
                  /\ lastReq'.status = 201
                  /\ colleges'[new].status = wanted
                  /\ colleges'[new].position = position]_vars

\* C20: updatePosition stores a position only if it is a whole number that
\* is not negative; for any other value the request answers with the
\* validation error (400) and the college keeps its position.
C20_PositionValidated ==
  [][\A u \in loggedIn, c \in DOMAIN colleges, body \in PositionBodies :
       PatchCollegePosition(u, c, body) =>
         IF body.type = "number" /\ ~body.half /\ body.whole >= 0
         THEN /\ lastReq'.status = 200
              /\ colleges'[c].position = body.whole
              /\ ~colleges'[c].half
         ELSE /\ lastReq'.status = 400
              /\ colleges' = colleges]_vars

(* ----------------------- the title of a session ------------------------ *)
\* n characters of message text
Chars(n) == [i \in 1..n |-> "x"]

\* message texts on both sides of the title limit, with and without the
\* "..." marker that the handler strips
TitleContents ==
  {<<"h", "i">>, <<"h", "i", ".", ".", ".">>, Chars(TitleLimit), Chars(TitleLimit + 1),
   Chars(TitleLimit) \o <<".", ".", ".">>, Chars(TitleLimit + 1) \o <<".", ".", ".">>}

\* title of the body of POST /api/chat/sessions: none, or one the user chose
ExplicitTitle == <<"E", "s", "s", "a", "y", "s">>
Titles == {<<>>, ExplicitTitle}

TitleUsernames == {"alice"}

InitTitle == Init

NextTitle ==
  \/ \E username \in TitleUsernames, password \in Passwords : Register(username, password)
  \/ \E u \in loggedIn, title \in Titles : CreateChatSession(u, title)
  \/ \E u \in loggedIn, sid \in SessionIds, content \in TitleContents, ai \in AiOutcomes :
        SendMessage(u, sid, content, ai, "NULL")
  \/ \E u \in loggedIn, content \in TitleContents, attachments \in Attachments,
        ai \in AiOutcomes :
        SendNewSessionMessage(u, content, attachments, ai, "NULL")

SpecTitle == InitTitle /\ [][NextTitle]_vars

\* C21: when a session gets its first message, then: if the session had
\* been created without an explicit title (its title is the default one, or
\* the request created the session itself), its title is the stored message
\* when that has at most 30 characters, and else a text of at most 30
\* characters that ends in "..." and starts like the message; if the
\* session had been created with an explicit title, the title is unchanged.
C21_TitleFromFirstMessage ==
  [][\A sid \in SessionIds :
       (getChatMessages(sid) = <<>> /\ getChatMessages(sid)' # <<>>) =>
         LET message == getChatMessages(sid)'[1].content
             title == chatSessions'[sid].title
             n == Len(title)
         IN IF sid \in DOMAIN chatSessions /\ chatSessions[sid].title # DefaultTitle
            THEN title = chatSessions[sid].title
            ELSE IF Len(message) <= TitleLimit
            THEN title = message
            ELSE /\ n <= TitleLimit
                 /\ n >= 3
                 /\ SubSeq(title, n - 2, n) = <<".", ".", ".">>
                 /\ SubSeq(title, 1, n - 3) = SubSeq(message, 1, n - 3)]_vars

\* C29: a request that creates a session with its first message and is
\* answered with the validation error (400) for malformed attachments has
\* created no chat session and no chat message.
C29_RejectedRequestStoresNothing ==
  [][(lastReq'.op = "sendNewSessionMessage" /\ lastReq'.status = 400) =>
       /\ chatSessions' = chatSessions
       /\ chatMessages' = chatMessages]_vars

(* ------------------------- the tier of the AI call --------------------- *)
\* one request at a time, with every value of the two flags
InitTier == Init /\ WithKey

NextTier ==
  \/ ~MemChain /\ \E username \in TitleUsernames, password \in Passwords :
                     Register(username, password)
  \/ ~MemChain /\ \E u \in loggedIn : CreateChatSession(u, <<>>)
  \/ ~MemChain /\ \E u \in loggedIn, sid \in SessionIds, content \in Contents,
                     useWebSearch \in FlagValues, extendThinking \in FlagValues :
                     SendStart(1, u, sid, content, "none", useWebSearch, extendThinking)
  \/ ~MemChain /\ \E ai \in AiOutcomes : SendAi(1, ai, "NULL")
  \/ SendPersist(1)
  \/ SendTitle(1)

SpecTier == InitTier /\ [][NextTier]_vars

\* C22: the endpoint a chat request's AI call goes to is determined by the
\* two flags of its body: the extended-reasoning model when extendThinking
\* is set, whether or not useWebSearch is set; the web-search endpoint when
\* only useWebSearch is set; the standard endpoint when neither is set.
C22_TierFromFlags ==
  [][\A p \in InFlight :
       (sending[p].pc = "saved" /\ sending'[p].pc = "asked") =>
         LET web == Truthy(sending[p].useWebSearch)
             ext == Truthy(sending[p].extendThinking)
             endpoint == sending'[p].endpoint
         IN /\ ext => endpoint = "v1beta/models/gemini-2.5-flash-preview-04-17"
            /\ (~ext /\ web) => endpoint = "v1beta/models/gemini-2.0-flash"
            /\ (~ext /\ ~web) => endpoint = "v1/models/gemini-2.0-flash"]_vars

\* an AI call is out for a request that set both flags
C22_Witness ==
  \E p \in InFlight :
    /\ sending[p].pc = "asked"
    /\ Truthy(sending[p].useWebSearch)
    /\ Truthy(sending[p].extendThinking)
    /\ sending[p].endpoint = "v1beta/models/gemini-2.5-flash-preview-04-17"

(* -------------------- the profile check of a chat turn ----------------- *)
ProfileDescriptions == {"This student is"}

InitProfile == Init /\ WithKey

NextProfile ==
  \/ \E username \in Usernames, password \in Passwords : Register(username, password)
  \/ \E u \in loggedIn, d \in ProfileDescriptions : UpdateProfileDescription(u, d)
  \/ \E u \in loggedIn : CreateChatSession(u, <<>>)
  \/ \E u \in loggedIn, sid \in SessionIds, content \in Contents, ai \in AiOutcomes,
        profile \in ProfileOutcomes : SendMessage(u, sid, content, ai, profile)
  \/ \E u \in loggedIn, content \in Contents, ai \in AiOutcomes,
        profile \in ProfileOutcomes :
        SendNewSessionMessage(u, content, "none", ai, profile)

SpecProfile == InitProfile /\ [][NextProfile]_vars

\* C23: a chat turn whose AI reply has been stored changes the user's
\* profile description only if the user had a profile description and the
\* profile check came back with a replacement, that is with a text that is
\* neither empty nor the no-change answer (a text with the word NULL); the
\* stored description is then that text and profileUpdated is true.  In all
\* other cases (no description yet, the no-change answer, a failed check)
\* no user row changes, profileUpdated is false, and the answer still
\* carries the user message and the AI message.
C23_ProfileChangedOnlyByReplacement ==
  [][\A u \in loggedIn, content \in Contents, profile \in ProfileOutcomes :
       LET replaced == /\ users[u].profileDescription # NullProfile
                       /\ profile \notin NullReplies \cup {"", "throws"}
           turn == \/ \E sid \in DOMAIN chatSessions :
                        /\ chatSessions[sid].userId = u
                        /\ SendMessage(u, sid, content, "ok", profile)
                   \/ SendNewSessionMessage(u, content, "none", "ok", profile)
       IN (lastReq'.status = 200 /\ turn) =>
            /\ SendMessageBody("ok").userMessage = nextId.chatMessage
            /\ SendMessageBody("ok").aiMessage = nextId.chatMessage + 1
            /\ ~SendMessageBody("ok").error
            /\ SendMessageProfileUpdated(u, profile) = replaced
            /\ IF replaced
               THEN users' = [users EXCEPT ![u].profileDescription = profile]
               ELSE users' = users]_vars

\* a chat turn has replaced a user's profile description
C23_Witness ==
  /\ lastReq.op = "sendMessage"
  /\ lastReq.status = 200
  /\ \E u \in DOMAIN users : users[u].profileDescription = "updated in chat"

(* ------------------ chat requests that run interleaved ----------------- *)
SendMaxSessions == 1
SendContents == {<<"h", "i">>, <<"y", "o">>}

InitSend == Init

NextSend ==
  \/ ~MemChain /\ \E username \in TitleUsernames, password \in Passwords :
                     Register(username, password)
  \/ ~MemChain /\ \E u \in loggedIn :
                     nextId.chatSession <= SendMaxSessions /\ CreateChatSession(u, <<>>)
  \/ ~MemChain /\ \E p \in InFlight, u \in loggedIn, sid \in SessionIds,
                     content \in SendContents :
                     SendStart(p, u, sid, content, "none", "undefined", "undefined")
  \/ ~MemChain /\ \E p \in InFlight, ai \in AiOutcomes : SendAi(p, ai, "NULL")
  \/ ~MemChain /\ \E u \in loggedIn, sid \in SessionIds : DeleteChatSession(u, sid)
  \/ \E p \in InFlight : SendPersist(p)
  \/ \E p \in InFlight : SendTitle(p)

SpecSend == InitSend /\ [][NextSend]_vars

\* C24: a request whose AI call is out has stored its user message before;
\* and when the AI reply of a request is stored, then in every order in
\* which the session's messages can be listed the reply comes after the
\* user message of that request, whatever other requests on the session
\* have stored in between.
C24_ReplyAfterItsMessage ==
  [][\A p \in InFlight :
       /\ sending'[p].pc = "asked" =>
             /\ sending'[p].savedMessage # 0
             /\ sending'[p].savedMessage < nextId'.chatMessage
       /\ (/\ sending[p].pc = "asked"
           /\ sending'[p].pc = "idle"
           /\ nextId'.chatMessage = nextId.chatMessage + 1) =>
             \A sid \in SessionIds : sid = sending[p].sessionId =>
                \A listing \in ListOrders(sid)' :
                   \E r \in DOMAIN listing :
                      /\ listing[r].id = nextId.chatMessage
                      /\ listing[r].sender = "ai"
                      /\ \A m \in DOMAIN listing :
                            listing[m].id = sending[p].savedMessage => m < r]_vars

\* two requests on one session have run interleaved: both user messages
\* were stored before either reply
C24_Witness ==
  /\ Len(chatMessages) = 4
  /\ \A i \in 1..4 : chatMessages[i].sessionId = 1
  /\ chatMessages[1].sender = "user"
  /\ chatMessages[2].sender = "user"
  /\ chatMessages[3].sender = "ai"
  /\ chatMessages[4].sender = "ai"

\* C26: when no chat request is in flight, every stored chat message
\* belongs to a chat session that exists.
C26_NoMessageWithoutSession ==
  (\A p \in InFlight : sending[p].pc = "idle") =>
     \A i \in DOMAIN chatMessages : chatMessages[i].sessionId \in DOMAIN chatSessions

\* C28: when no chat request is in flight, a session that has messages
\* does not have the default title any more: its title is the truncation
\* of one of the messages sent to it.
C28_TitleReplaced ==
  (\A p \in InFlight : sending[p].pc = "idle") =>
     \A sid \in DOMAIN chatSessions :
        getChatMessages(sid) # <<>> =>
           /\ chatSessions[sid].title # DefaultTitle
           /\ \E content \in SendContents :
                 chatSessions[sid].title = TruncatedTitle(cleanedContent(content))

(* --------------- convert requests that run interleaved ----------------- *)
\* the recommendations of the user: one generate request stores them, under
\* names that differ
RaceNames == <<"MIT", "Yale">>

InitConvertRace == Init /\ WithKey

NextConvertRace ==
  \/ ~MemChain /\ \E username \in TitleUsernames, password \in Passwords :
                     Register(username, password)
  \/ ~MemChain /\ \E u \in loggedIn :
                     /\ nextId.recommendation = 1
                     /\ GenerateRecommendations(u, "ok", RaceNames)
  \/ ~MemChain /\ \E p \in InFlight, u \in loggedIn, r \in RecommendationIds,
                     status \in CollegeStatus : ConvertStart(p, u, r, status)
  \/ \E p \in InFlight : ConvertCreate(p)
  \/ \E p \in InFlight : ConvertDelete(p)

SpecConvertRace == InitConvertRace /\ [][NextConvertRace]_vars

\* C25: however the convert requests for a recommendation interleave, at
\* most one college is created from it.  (Colleges come from convert
\* requests only here, and the recommendations have different names: no two
\* colleges have the same name.)
C25_OneCollegePerRecommendation ==
  \A c, d \in DOMAIN colleges : colleges[c].name = colleges[d].name => c = d

(* ------------- junction rows after sessions and advisors go ------------ *)
InitJunctionDelete == Init /\ WithKey

NextJunctionDelete ==
  \/ \E username \in Usernames, password \in Passwords : Register(username, password)
  \/ \E u \in loggedIn, name \in AdvisorNames, type \in AdvisorTypes :
        CreateAdvisor(u, name, type)
  \/ \E u \in loggedIn : CreateChatSession(u, <<>>)
  \/ \E u \in loggedIn, a \in AdvisorIds, ids \in SingleSessionLists : ShareChats(u, a, ids)
  \/ \E u \in loggedIn, sid \in SessionIds : DeleteChatSession(u, sid)
  \/ \E u \in loggedIn, a \in AdvisorIds : DeleteAdvisor(u, a)

SpecJunctionDelete == InitJunctionDelete /\ [][NextJunctionDelete]_vars

\* C27: every junction row (advisorId, sessionId) refers to an advisor that
\* exists and to a chat session that exists and belongs to the user who owns
\* that advisor.
C27_JunctionRowsRefer ==
  \A a \in AdvisorIds : \A i \in DOMAIN sharedChatSessions[a] :
     /\ a \in DOMAIN advisors
     /\ sharedChatSessions[a][i] \in DOMAIN chatSessions
     /\ chatSessions[sharedChatSessions[a][i]].userId = advisors[a].userId

(* ---------------- the two implementations of IStorage ------------------ *)
StoragesMaxColleges == 2
StoragesMaxAdvisors == 1
StoragesMaxSessions == 1

InitStorages == Init /\ WithKey

NextStorages ==
  \/ \E username \in TitleUsernames, password \in Passwords : Register(username, password)
  \/ \E u \in loggedIn, name \in CollegeNames, status \in StatusInputs,
        positionGiven \in BOOLEAN, position \in MovePositions :
        /\ nextId.college <= StoragesMaxColleges
        /\ CreateCollege(u, name, status, positionGiven, position)
  \/ \E u \in loggedIn, c \in CollegeIds, status \in CollegeStatus :
        UpdateCollegeStatus(u, c, status)
  \/ \E u \in loggedIn, c \in CollegeIds, body \in PositionBodies :
        PatchCollegePosition(u, c, body)
  \/ \E u \in loggedIn, c \in CollegeIds : DeleteCollege(u, c)
  \/ \E u \in loggedIn, name \in AdvisorNames, type \in AdvisorTypes :
        /\ nextId.advisor <= StoragesMaxAdvisors
        /\ CreateAdvisor(u, name, type)
  \/ \E u \in loggedIn, a \in AdvisorIds, isActive \in BOOLEAN :
        UpdateAdvisorStatus(u, a, isActive)
  \/ \E u \in loggedIn, a \in AdvisorIds : DeleteAdvisor(u, a)
  \/ \E u \in loggedIn :
        /\ nextId.chatSession <= StoragesMaxSessions
        /\ CreateChatSession(u, <<>>)
  \/ \E u \in loggedIn, a \in AdvisorIds, ids \in SingleSessionLists : ShareChats(u, a, ids)
  \/ \E u \in loggedIn, a \in AdvisorIds, ids \in SingleSessionLists : UnshareChats(u, a, ids)

SpecStorages == InitStorages /\ [][NextStorages]_vars

\* C30: MemStorage and PostgresStorage are observationally equivalent for the
\* college and advisor/sharing operations: in every state the program reaches,
\* getAdvisorByShareToken returns the same advisor in both implementations for
\* every token that was handed out, and createCollege and updateCollegeStatus
\* with the same arguments leave the same rows for getColleges and
\* getCollegesByStatus to return.
C30_StoragesAgree ==
  /\ \A a \in DOMAIN advisors :
        getAdvisorByShareTokenIn("pg", advisors[a].shareToken)
          = getAdvisorByShareTokenIn("mem", advisors[a].shareToken)
  /\ \A u \in DOMAIN users, name \in CollegeNames, status \in StatusInputs :
        LET college == [userId |-> u, name |-> name, status |-> status,
                        positionGiven |-> FALSE, position |-> 0]
        IN createCollegeIn("pg", college) = createCollegeIn("mem", college)
  /\ \A c \in DOMAIN colleges, status \in CollegeStatus :
        updateCollegeStatusIn("pg", c, status) = updateCollegeStatusIn("mem", c, status)

====
